---- MODULE Spec2Model ----
(***************************************************************************)
(* A model of the BMF viewer's reference-graph pipeline (parser, graph     *)
(* builder, store), of its epic-clustering analysis and of the layout      *)
(* effect of the navigation graph.                                         *)
(*                                                                         *)
(* Text is modelled as a sequence of one-character strings, so that the    *)
(* regular expressions, the splitting of identifiers and the building of   *)
(* ids are computed as the code computes them.  A YAML value is a tagged   *)
(* record: [str |-> chars], [list |-> <<values>>], [map |-> <<[k, v]>>]    *)
(* (keys are text, in the order JavaScript enumerates an object's own      *)
(* keys), [scalar |-> chars] for null, a boolean or a number, chars being  *)
(* what String() makes of it; JavaScript's undefined is [undef |-> TRUE].  *)
(* A place that holds a string in the documents the viewer is written for  *)
(* holds plain text; when the code puts another value there, the place     *)
(* holds [notAString |-> value].  A call that throws has the value         *)
(* [throws |-> kind].  A JavaScript Map is a sequence of entries in        *)
(* insertion order.                                                        *)
(***************************************************************************)
EXTENDS Integers, Sequences, FiniteSets, TLC

VARIABLES
    files,            \* the documents handed to the store (the input)
    loaded,           \* store.loaded
    loading,          \* store.loading
    error,            \* store.error: "null" or the message
    parsed,           \* store.parsed: <<>> for null, else <<ParsedBmf>>
    graph,            \* store.graph: <<>> for null, else <<BmfGraph>>
    selectedNodeId,   \* store.selectedNodeId: <<>> for null, else <<id>>
    connectedNodes,   \* store.connectedNodes: a set of node ids
    refreshing,       \* the calls of refreshFolder, each past its first set()
    fileName,         \* store.fileName: <<>> for null, else <<name>>
    directoryHandle,  \* store.directoryHandle: <<>> for null, else <<handle>>
    hiddenTypes,      \* store.hiddenTypes
    hiddenEpics,      \* store.hiddenEpics
    hiddenTags,       \* store.hiddenTags
    comments,         \* store.comments: the ids that have a comment
    storedFilters,    \* localStorage's filter record: <<>> if none, else <<r>>
    storageWritable,  \* whether localStorage.setItem succeeds
    lastToggle,       \* history: the last run of equal toggles, <<>> if none
    layoutNodes,      \* getClusteredLayout's nodes: <<[id, epic]>>
    layoutEdges,      \* getClusteredLayout's edges: <<[source, target]>>
    epicStats,        \* the Map epicStats, in insertion order
    communities,      \* the Map communities, in insertion order
    phase,            \* how far getClusteredLayout has come
    layoutedGraph,    \* the root children of what elk.layout returned
    layoutedNodes,    \* the nodes getClusteredLayout returns: [id, x, y]
    effectPending,    \* rawNodes/rawEdges changed, the effect has yet to run
    lastLayoutKeyRef, \* lastLayoutKeyRef.current: <<>> for null, else <<key>>
    requests,         \* the getClusteredLayout calls made by the effect
    cleanupOf,        \* the request the effect's cleanup closes over, or 0
    flowNodes,        \* the displayed nodes (useNodesState)
    flowEdges,        \* the displayed edges (useEdgesState)
    isLayouting,      \* the layouting flag
    text,             \* a string value of a document (an input)
    refsOut,          \* <<>>, or <<what extractReferences pushed for text>>
    refOut            \* <<>>, or <<what extractReference returned for text>>

storeVars == <<files, loaded, loading, error, parsed, graph,
               selectedNodeId, connectedNodes, refreshing>>

\* the rest of the store, and the browser storage under it
filterVars == <<fileName, directoryHandle, hiddenTypes, hiddenEpics,
                hiddenTags, comments, storedFilters, storageWritable,
                lastToggle>>

epicVars == <<layoutNodes, layoutEdges, epicStats, communities, phase>>

effectVars == <<effectPending, lastLayoutKeyRef, requests, cleanupOf,
                flowNodes, flowEdges, isLayouting>>

textVars == <<text, refsOut, refOut>>

positionVars == <<layoutedGraph, layoutedNodes>>

vars == <<storeVars, filterVars, epicVars, effectVars, textVars,
          positionVars>>

\* what the operations of one part leave alone
outsideStore == <<epicVars, effectVars, textVars, positionVars>>
outsideEpic == <<storeVars, filterVars, effectVars, textVars>>
outsideEffect == <<storeVars, filterVars, epicVars, textVars, positionVars>>
outsideText == <<storeVars, filterVars, epicVars, effectVars, positionVars>>

-----------------------------------------------------------------------------
(* Characters and text                                                     *)

LowerSeq == <<"a","b","c","d","e","f","g","h","i","j","k","l","m",
              "n","o","p","q","r","s","t","u","v","w","x","y","z">>
UpperSeq == <<"A","B","C","D","E","F","G","H","I","J","K","L","M",
              "N","O","P","Q","R","S","T","U","V","W","X","Y","Z">>
DigitSeq == <<"0","1","2","3","4","5","6","7","8","9">>

Range(s) == {s[i] : i \in DOMAIN s}

Lower == Range(LowerSeq)
Upper == Range(UpperSeq)
Digits == Range(DigitSeq)

Letters == Lower \cup Upper
PathChars == Letters \cup Digits \cup {".", "_", ":", "-"}
WordChars == Letters \cup Digits \cup {"_"}

\* [a-z] under the i flag
IsLetter(c) == c \in Letters

\* [a-z0-9._:-] under the i flag
IsPathChar(c) == c \in PathChars

\* \w, which decides \b
IsWordChar(c) == c \in WordChars

ToLower(c) ==
    IF c \in Upper
    THEN LowerSeq[CHOOSE i \in DOMAIN UpperSeq : UpperSeq[i] = c]
    ELSE c

\* String(n) for a natural number
RECURSIVE NatToStr(_)
NatToStr(n) ==
    IF n < 10 THEN <<DigitSeq[n + 1]>>
    ELSE NatToStr(n \div 10) \o <<DigitSeq[(n % 10) + 1]>>

\* s.split(sep), sep one character
RECURSIVE SplitFrom(_, _, _, _)
SplitFrom(s, sep, i, cur) ==
    IF i > Len(s) THEN <<cur>>
    ELSE IF s[i] = sep THEN <<cur>> \o SplitFrom(s, sep, i + 1, <<>>)
    ELSE SplitFrom(s, sep, i + 1, Append(cur, s[i]))

Split(s, sep) == SplitFrom(s, sep, 1, <<>>)

\* parts.join(sep)
RECURSIVE Join(_, _)
Join(parts, sep) ==
    IF Len(parts) = 0 THEN <<>>
    ELSE IF Len(parts) = 1 THEN parts[1]
    ELSE parts[1] \o <<sep>> \o Join(Tail(parts), sep)

\* a path left as it was written
ReplaceDotsNot(s) == s

\* path.replace(/\./g, ':')
ReplaceDots(s) == [i \in DOMAIN s |-> IF s[i] = "." THEN ":" ELSE s[i]]

\* the printable ASCII characters, but for the grave accent, in the order of
\* their code units
AsciiSeq ==
    <<" ", "!", "\"", "#", "$", "%", "&", "'", "(", ")", "*", "+", ",", "-",
      ".", "/">> \o DigitSeq \o <<":", ";", "<", "=", ">", "?", "@">>
    \o UpperSeq \o <<"[", "\\", "]", "^", "_">> \o LowerSeq
    \o <<"{", "|", "}", "~">>

\* The white space beyond the space itself, in the order of its code
\* units: tab, line feed, vertical tab, form feed and carriage return
\* stand before the space; the no-break space, the Ogham space mark, the
\* spaces U+2000 to U+200A, the line and the paragraph separator, the
\* narrow no-break space, the medium mathematical space, the ideographic
\* space and the byte order mark stand after the ASCII characters.  A
\* string of a module cannot hold the characters from U+2000 to U+3000:
\* in a text each of them is written as the string that names it.
ControlSpaces == <<"\t", "\n", "", "\f", "\r">>

UnicodeSpaces ==
    <<" ", " ", "U+2000", "U+2001", "U+2002", "U+2003", "U+2004", "U+2005",
      "U+2006", "U+2007", "U+2008", "U+2009", "U+200A", "U+2028",
      "U+2029", "U+202F", "U+205F", "U+3000",
      "﻿">>

\* the characters of the model's texts in the order of their code units
CodeUnitSeq == ControlSpaces \o AsciiSeq \o UnicodeSpaces

\* the place of c in CodeUnitSeq: it orders characters as their code units
\* do
CharCode(c) == CHOOSE i \in DOMAIN CodeUnitSeq : CodeUnitSeq[i] = c

\* a < b for two strings: the comparison of Array.prototype.sort() without
\* a compare function, and of the relational operators on strings
RECURSIVE TextLess(_, _)
TextLess(a, b) ==
    IF Len(b) = 0 THEN FALSE
    ELSE IF Len(a) = 0 THEN TRUE
    ELSE IF a[1] # b[1] THEN CharCode(a[1]) < CharCode(b[1])
    ELSE TextLess(Tail(a), Tail(b))

\* Array.from(set).sort() for a set of strings
RECURSIVE SortTexts(_)
SortTexts(S) ==
    IF S = {} THEN <<>>
    ELSE LET first == CHOOSE x \in S : \A y \in S : x = y \/ TextLess(x, y)
         IN  <<first>> \o SortTexts(S \ {first})

sScreen == <<"s", "c", "r", "e", "e", "n">>
sDialog == <<"d", "i", "a", "l", "o", "g">>
sEvent == <<"e", "v", "e", "n", "t">>
sAction == <<"a", "c", "t", "i", "o", "n">>
sComponent == <<"c", "o", "m", "p", "o", "n", "e", "n", "t">>
sLayout == <<"l", "a", "y", "o", "u", "t">>
sEntity == <<"e", "n", "t", "i", "t", "y">>
sContext == <<"c", "o", "n", "t", "e", "x", "t">>
sTrigger == <<"t", "r", "i", "g", "g", "e", "r">>
sComponents == <<"c", "o", "m", "p", "o", "n", "e", "n", "t", "s">>
sUnknown == <<"u", "n", "k", "n", "o", "w", "n">>
sEffect == <<"e", "f", "f", "e", "c", "t">>
sCondition == <<"c", "o", "n", "d", "i", "t", "i", "o", "n">>
sThen == <<"t", "h", "e", "n">>
sElse == <<"e", "l", "s", "e">>
sArrow == <<"-", ">">>
sId == <<"i", "d">>
sType == <<"t", "y", "p", "e">>
sValue == <<"v", "a", "l", "u", "e">>
sEffects == <<"e", "f", "f", "e", "c", "t", "s">>
sTags == <<"t", "a", "g", "s">>
sIf == <<"i", "f">>
sTo == <<"t", "o">>
sDescription == <<"d", "e", "s", "c", "r", "i", "p", "t", "i", "o", "n">>
sLength == <<"l", "e", "n", "g", "t", "h">>
sNull == <<"n", "u", "l", "l">>
sTrue == <<"t", "r", "u", "e">>
sFalse == <<"f", "a", "l", "s", "e">>
sNaN == <<"N", "a", "N">>
sUndefined == <<"u", "n", "d", "e", "f", "i", "n", "e", "d">>
sObjectObject ==
    <<"[", "o", "b", "j", "e", "c", "t", " ", "O", "b", "j", "e", "c", "t", "]">>
sToString == <<"t", "o", "S", "t", "r", "i", "n", "g">>
sComments == <<"c", "o", "m", "m", "e", "n", "t", "s">>
sRef == <<"r", "e", "f">>

-----------------------------------------------------------------------------
(* patterns.ts                                                             *)

NoMatch == [found |-> FALSE]

\* the length of the longest run of letters of s that starts at i
RECURSIVE LetterRun(_, _)
LetterRun(s, i) ==
    IF i <= Len(s) /\ IsLetter(s[i]) THEN 1 + LetterRun(s, i + 1) ELSE 0

\* the length of the longest run of path characters of s that starts at i
RECURSIVE PathRun(_, _)
PathRun(s, i) ==
    IF i <= Len(s) /\ IsPathChar(s[i]) THEN 1 + PathRun(s, i + 1) ELSE 0

\* /\$([a-z]+)[.:]([a-z0-9._:-]+)/i anchored at position i.  Both groups are
\* greedy and no shorter letter run can be followed by [.:], so the match at
\* a position is unique.  next is the index after the match (lastIndex + 1).
RefMatchAt(s, i) ==
    LET n == LetterRun(s, i + 1)
        m == PathRun(s, i + n + 2)
    IN  IF /\ i <= Len(s)
           /\ s[i] = "$"
           /\ n >= 1
           /\ i + n + 1 <= Len(s)
           /\ s[i + n + 1] \in {".", ":"}
           /\ m >= 1
        THEN [found |-> TRUE,
              g1 |-> SubSeq(s, i + 1, i + n),
              g2 |-> SubSeq(s, i + n + 2, i + n + 1 + m),
              index |-> i,
              next |-> i + n + 2 + m]
        ELSE NoMatch

\* REFERENCE_PATTERN.exec(s) searching from position from
RECURSIVE ReferenceExec(_, _)
ReferenceExec(s, from) ==
    IF from > Len(s) THEN NoMatch
    ELSE IF s[from] = "$" /\ RefMatchAt(s, from).found THEN RefMatchAt(s, from)
    ELSE ReferenceExec(s, from + 1)

\* /\bcomponent:([a-z0-9._:-]+)/i anchored at position i
BareMatchAt(s, i) ==
    LET lit == sComponent \o <<":">>
        n == Len(lit)
        m == PathRun(s, i + n)
    IN  IF /\ i + n - 1 <= Len(s)
           /\ (i = 1 \/ ~IsWordChar(s[i - 1]))
           /\ \A k \in 1..n : ToLower(s[i + k - 1]) = lit[k]
           /\ m >= 1
        THEN [found |-> TRUE,
              g1 |-> SubSeq(s, i + n, i + n + m - 1),
              index |-> i,
              next |-> i + n + m]
        ELSE NoMatch

\* BARE_COMPONENT_PATTERN.exec(s) searching from position from
RECURSIVE BareComponentExec(_, _)
BareComponentExec(s, from) ==
    IF from > Len(s) THEN NoMatch
    ELSE IF ToLower(s[from]) = "c" /\ BareMatchAt(s, from).found
    THEN BareMatchAt(s, from)
    ELSE BareComponentExec(s, from + 1)

NoReference == [isRef |-> FALSE]

\* extractReference(value): null is NoReference
extractReference(value) ==
    LET match == ReferenceExec(value, 1)
        bareMatch == BareComponentExec(value, 1)
    IN  IF match.found
        THEN [isRef |-> TRUE,
              reference |-> match.g1 \o <<":">> \o ReplaceDots(match.g2),
              referenceType |-> match.g1]
        ELSE IF bareMatch.found
        THEN [isRef |-> TRUE,
              reference |-> sComponent \o <<":">> \o ReplaceDots(bareMatch.g1),
              referenceType |-> sComponent]
        ELSE NoReference

-----------------------------------------------------------------------------
(* YAML values                                                             *)

Undef == [undef |-> TRUE]
Str(s) == [str |-> s]
List(l) == [list |-> l]
Scalar(t) == [scalar |-> t]
Null == Scalar(sNull)

IsStr(v) == "str" \in DOMAIN v
IsList(v) == "list" \in DOMAIN v
IsMap(v) == "map" \in DOMAIN v
IsUndef(v) == "undef" \in DOMAIN v
IsScalar(v) == "scalar" \in DOMAIN v
IsNull(v) == IsScalar(v) /\ v.scalar = sNull

\* typeof v === 'object' && v (arrays are objects)
IsObject(v) == IsList(v) \/ IsMap(v)

\* x is a record with the one field name; x may be a record or a sequence
HasOnlyField(x, name) == ToString(DOMAIN x) = ToString({name})

\* what a call that throws a TypeError gives
TypeError == [throws |-> "TypeError"]

\* the call that gave x threw
Throws(x) == HasOnlyField(x, "throws")

\* a value that is not a string, in a place typed as a string
NotAString(v) == [notAString |-> v]

IsNotAString(x) == HasOnlyField(x, "notAString")

\* a canonical array index: "0", or digits without a leading zero that
\* stand for a number below 2^32 - 1
MaxArrayIndex == <<"4", "2", "9", "4", "9", "6", "7", "2", "9", "4">>

IsArrayIndex(k) ==
    /\ Len(k) > 0
    /\ \A i \in DOMAIN k : k[i] \in Digits
    /\ k[1] # "0" \/ Len(k) = 1
    /\ Len(k) <= Len(MaxArrayIndex)
    /\ Len(k) = Len(MaxArrayIndex) => ~TextLess(MaxArrayIndex, k)

\* a < b for two array indices written in decimal
IndexLess(a, b) == Len(a) < Len(b) \/ (Len(a) = Len(b) /\ TextLess(a, b))

\* the entries of the set E in ascending order of their index keys
RECURSIVE SortIndexEntries(_)
SortIndexEntries(E) ==
    IF E = {} THEN <<>>
    ELSE LET first == CHOOSE e \in E :
                        \A f \in E : e.k = f.k \/ IndexLess(e.k, f.k)
         IN  <<first>> \o SortIndexEntries(E \ {first})

\* the order in which Object.entries, Object.keys and for-in give the own
\* properties of an object written with the entries m: the array indices
\* in ascending order, then the other keys in the order they were added
OwnPropertyOrder(m) ==
    SortIndexEntries({m[i] : i \in {j \in DOMAIN m : IsArrayIndex(m[j].k)}})
        \o SelectSeq(m, LAMBDA e : ~IsArrayIndex(e.k))

\* the object a YAML mapping with the entries m, in document order, becomes
Map(m) == [map |-> OwnPropertyOrder(m)]

\* JavaScript truthiness
Truthy(v) ==
    IF IsStr(v) THEN Len(v.str) > 0
    ELSE IF IsObject(v) THEN TRUE
    ELSE IF IsUndef(v) THEN FALSE
    ELSE v.scalar \notin {sNull, sFalse, <<"0">>, sNaN}

\* Turning v into a string or a number throws.  An object is turned into
\* a primitive by its toString and valueOf methods; an object written in
\* YAML with a key toString holds under it a value that is no function,
\* and the valueOf it inherits gives the object itself, so no method
\* gives a primitive.  An array is joined, which turns every element but
\* null and undefined into a string.
RECURSIVE ToPrimitiveThrows(_)
ToPrimitiveThrows(v) ==
    IF IsMap(v) THEN \E i \in DOMAIN v.map : v.map[i].k = sToString
    ELSE IF IsList(v)
    THEN \E i \in DOMAIN v.list :
            /\ ~IsUndef(v.list[i])
            /\ ~IsNull(v.list[i])
            /\ ToPrimitiveThrows(v.list[i])
    ELSE FALSE

\* String(v), which a template literal and RegExp.prototype.exec apply to
\* a value that is not a string
RECURSIVE ToText(_)
ToText(v) ==
    IF ToPrimitiveThrows(v) THEN TypeError
    ELSE IF IsStr(v) THEN v.str
    ELSE IF IsUndef(v) THEN sUndefined
    ELSE IF IsMap(v) THEN sObjectObject
    ELSE IF IsList(v)
    THEN Join([i \in DOMAIN v.list |->
                    IF IsUndef(v.list[i]) \/ IsNull(v.list[i]) THEN <<>>
                    ELSE ToText(v.list[i])], ",")
    ELSE v.scalar

\* the text of what a place typed as a string holds, as a template
\* literal gives it
TextOf(x) == IF IsNotAString(x) THEN ToText(x.notAString) ELSE x

\* what a place typed as a string holds when the code puts v there
AsHeld(v) == IF IsStr(v) THEN v.str ELSE NotAString(v)

\* the number an array index written in decimal stands for
RECURSIVE IndexToNat(_)
IndexToNat(k) ==
    IF Len(k) = 0 THEN 0
    ELSE 10 * IndexToNat(SubSeq(k, 1, Len(k) - 1))
            + (CHOOSE d \in 0..9 : DigitSeq[d + 1] = k[Len(k)])

\* key is the index of one of the n elements of an array or a string
IsElementOf(key, n) ==
    IsArrayIndex(key) /\ Len(key) < Len(MaxArrayIndex) /\ IndexToNat(key) < n

\* v[key]: reading a property of null or undefined throws
Get(v, key) ==
    IF IsUndef(v) \/ IsNull(v) THEN TypeError
    ELSE IF IsMap(v)
    THEN IF \E i \in DOMAIN v.map : v.map[i].k = key
         THEN v.map[CHOOSE i \in DOMAIN v.map : v.map[i].k = key].v
         ELSE Undef
    ELSE IF IsList(v)
    THEN IF key = sLength THEN Scalar(NatToStr(Len(v.list)))
         ELSE IF IsElementOf(key, Len(v.list))
         THEN v.list[IndexToNat(key) + 1]
         ELSE Undef
    ELSE IF IsStr(v)
    THEN IF key = sLength THEN Scalar(NatToStr(Len(v.str)))
         ELSE IF IsElementOf(key, Len(v.str))
         THEN Str(<<v.str[IndexToNat(key) + 1]>>)
         ELSE Undef
    ELSE Undef

\* key in v, for an object v
HasKey(v, key) ==
    IF IsMap(v) THEN \E i \in DOMAIN v.map : v.map[i].k = key
    ELSE IsList(v) /\ (key = sLength \/ IsElementOf(key, Len(v.list)))

\* StrWhiteSpaceChar: the white space Number() drops around a numeric
\* string, which is WhiteSpace (tab, vertical tab, form feed, the byte
\* order mark and the space separators) and LineTerminator (line feed,
\* carriage return, line and paragraph separator)
StrWhiteSpace == Range(ControlSpaces) \cup {" "} \cup Range(UnicodeSpaces)

\* the decimal digits of 2^-1075 = 0.2470...5 * 10^(Len - 1075), half the
\* least positive Number.  A decimal literal is rounded to the nearest
\* Number, ties to the even one, so it is above zero as a Number exactly
\* when its value is above 2^-1075.
HalfLeastNumber ==
    <<"2", "4", "7", "0", "3", "2", "8", "2", "2", "9", "2", "0", "6", "2",
      "3", "2", "7", "2", "0", "8", "8", "2", "8", "4", "3", "9", "6", "4",
      "3", "4", "1", "1", "0", "6", "8", "6", "1", "8", "2", "5", "2", "9",
      "9", "0", "1", "3", "0", "7", "1", "6", "2", "3", "8", "2", "2", "1",
      "2", "7", "9", "2", "8", "4", "1", "2", "5", "0", "3", "3", "7", "7",
      "5", "3", "6", "3", "5", "1", "0", "4", "3", "7", "5", "9", "3", "2",
      "6", "4", "9", "9", "1", "8", "1", "8", "0", "8", "1", "7", "9", "9",
      "6", "1", "8", "9", "8", "9", "8", "2", "8", "2", "3", "4", "7", "7",
      "2", "2", "8", "5", "8", "8", "6", "5", "4", "6", "3", "3", "2", "8",
      "3", "5", "5", "1", "7", "7", "9", "6", "9", "8", "9", "8", "1", "9",
      "9", "3", "8", "7", "3", "9", "8", "0", "0", "5", "3", "9", "0", "9",
      "3", "9", "0", "6", "3", "1", "5", "0", "3", "5", "6", "5", "9", "5",
      "1", "5", "5", "7", "0", "2", "2", "6", "3", "9", "2", "2", "9", "0",
      "8", "5", "8", "3", "9", "2", "4", "4", "9", "1", "0", "5", "1", "8",
      "4", "4", "3", "5", "9", "3", "1", "8", "0", "2", "8", "4", "9", "9",
      "3", "6", "5", "3", "6", "1", "5", "2", "5", "0", "0", "3", "1", "9",
      "3", "7", "0", "4", "5", "7", "6", "7", "8", "2", "4", "9", "2", "1",
      "9", "3", "6", "5", "6", "2", "3", "6", "6", "9", "8", "6", "3", "6",
      "5", "8", "4", "8", "0", "7", "5", "7", "0", "0", "1", "5", "8", "5",
      "7", "6", "9", "2", "6", "9", "9", "0", "3", "7", "0", "6", "3", "1",
      "1", "9", "2", "8", "2", "7", "9", "5", "5", "8", "5", "5", "1", "3",
      "3", "2", "9", "2", "7", "8", "3", "4", "3", "3", "8", "4", "0", "9",
      "3", "5", "1", "9", "7", "8", "0", "1", "5", "5", "3", "1", "2", "4",
      "6", "5", "9", "7", "2", "6", "3", "5", "7", "9", "5", "7", "4", "6",
      "2", "2", "7", "6", "6", "4", "6", "5", "2", "7", "2", "8", "2", "7",
      "2", "2", "0", "0", "5", "6", "3", "7", "4", "0", "0", "6", "4", "8",
      "5", "4", "9", "9", "9", "7", "7", "0", "9", "6", "5", "9", "9", "4",
      "7", "0", "4", "5", "4", "0", "2", "0", "8", "2", "8", "1", "6", "6",
      "2", "2", "6", "2", "3", "7", "8", "5", "7", "3", "9", "3", "4", "5",
      "0", "7", "3", "6", "3", "3", "9", "0", "0", "7", "9", "6", "7", "7",
      "6", "1", "9", "3", "0", "5", "7", "7", "5", "0", "6", "7", "4", "0",
      "1", "7", "6", "3", "2", "4", "6", "7", "3", "6", "0", "0", "9", "6",
      "8", "9", "5", "1", "3", "4", "0", "5", "3", "5", "5", "3", "7", "4",
      "5", "8", "5", "1", "6", "6", "6", "1", "1", "3", "4", "2", "2", "3",
      "7", "6", "6", "6", "7", "8", "6", "0", "4", "1", "6", "2", "1", "5",
      "9", "6", "8", "0", "4", "6", "1", "9", "1", "4", "4", "6", "7", "2",
      "9", "1", "8", "4", "0", "3", "0", "0", "5", "3", "0", "0", "5", "7",
      "5", "3", "0", "8", "4", "9", "0", "4", "8", "7", "6", "5", "3", "9",
      "1", "7", "1", "1", "3", "8", "6", "5", "9", "1", "6", "4", "6", "2",
      "3", "9", "5", "2", "4", "9", "1", "2", "6", "2", "3", "6", "5", "3",
      "8", "8", "1", "8", "7", "9", "6", "3", "6", "2", "3", "9", "3", "7",
      "3", "2", "8", "0", "4", "2", "3", "8", "9", "1", "0", "1", "8", "6",
      "7", "2", "3", "4", "8", "4", "9", "7", "6", "6", "8", "2", "3", "5",
      "0", "8", "9", "8", "6", "3", "3", "8", "8", "5", "8", "7", "9", "2",
      "5", "6", "2", "8", "3", "0", "2", "7", "5", "5", "9", "9", "5", "6",
      "5", "7", "5", "2", "4", "4", "5", "5", "5", "0", "7", "2", "5", "5",
      "1", "8", "9", "3", "1", "3", "6", "9", "0", "8", "3", "6", "2", "5",
      "4", "7", "7", "9", "1", "8", "6", "9", "4", "8", "6", "6", "7", "9",
      "9", "4", "9", "6", "8", "3", "2", "4", "0", "4", "9", "7", "0", "5",
      "8", "2", "1", "0", "2", "8", "5", "1", "3", "1", "8", "5", "4", "5",
      "1", "3", "9", "6", "2", "1", "3", "8", "3", "7", "7", "2", "2", "8",
      "2", "6", "1", "4", "5", "4", "3", "7", "6", "9", "3", "4", "1", "2",
      "5", "3", "2", "0", "9", "8", "5", "9", "1", "3", "2", "7", "6", "6",
      "7", "2", "3", "6", "3", "2", "8", "1", "2", "5">>

\* Number(text) > 0 for the text of a string: white space around it is
\* dropped, then it is Infinity, a binary, octal or hexadecimal literal
\* without a sign, or a decimal literal; anything else is NaN.  The text
\* has fewer than a million characters.
TextGreaterThanZero(chars) ==
    LET decimal == Range(DigitSeq)
        signs == {"+", "-"}
        inked == {i \in DOMAIN chars : chars[i] \notin StrWhiteSpace}
        Least(S) == CHOOSE i \in S : \A j \in S : i <= j
        Most(S) == CHOOSE i \in S : \A j \in S : j <= i
        Trimmed(S) == IF S = {} THEN <<>>
                      ELSE SubSeq(chars, Least(S), Most(S))
        Unsigned(t) == IF Len(t) > 0 /\ t[1] \in signs THEN Tail(t) ELSE t
        AllIn(u, allowed) ==
            Len(u) > 0 /\ \A i \in DOMAIN u : u[i] \in allowed
        Radix(u, letters, allowed) ==
            /\ Len(u) > 2
            /\ u[1] = "0"
            /\ u[2] \in letters
            /\ AllIn(SubSeq(u, 3, Len(u)), allowed)
            /\ \E i \in 3..Len(u) : u[i] # "0"
        ExpAt(u) == Least({i \in DOMAIN u : u[i] \in {"e", "E"}}
                            \cup {Len(u) + 1})
        DigitAt(ds, i) ==
            IF i > Len(ds) THEN 0
            ELSE CHOOSE d \in 0..9 : DigitSeq[d + 1] = ds[i]
        Above(a, b) ==
            \E i \in 1..(Len(a) + Len(b)) :
                /\ DigitAt(a, i) > DigitAt(b, i)
                /\ \A j \in 1..(i - 1) : DigitAt(a, j) = DigitAt(b, j)
        Significant(ds) ==
            SubSeq(ds, Least({i \in DOMAIN ds : ds[i] # "0"}
                                \cup {Len(ds) + 1}), Len(ds))
        \* the value is 0.ds * 10^magnitude, ds without a leading zero
        AboveHalfLeast(ds, magnitude) ==
            \/ magnitude > Len(HalfLeastNumber) - 1075
            \/ /\ magnitude = Len(HalfLeastNumber) - 1075
               /\ Above(ds, HalfLeastNumber)
        Scaled(ds, fraction, exponent, power) ==
            IF Len(power) > 6 THEN Len(exponent) = 0 \/ exponent[1] # "-"
            ELSE AboveHalfLeast(ds,
                    Len(ds) - fraction
                        + (IF Len(exponent) > 0 /\ exponent[1] = "-"
                           THEN 0 - IndexToNat(power)
                           ELSE IndexToNat(power)))
        Fraction(mantissa) ==
            Len(mantissa) - Least({i \in DOMAIN mantissa : mantissa[i] = "."}
                                    \cup {Len(mantissa)})
        Decimal(mantissa, exponent, hasExponent) ==
            /\ \A i \in DOMAIN mantissa : mantissa[i] \in decimal \cup {"."}
            /\ Cardinality({i \in DOMAIN mantissa : mantissa[i] = "."}) <= 1
            /\ \E i \in DOMAIN mantissa : mantissa[i] \in decimal \ {"0"}
            /\ hasExponent => AllIn(Unsigned(exponent), decimal)
            /\ Scaled(Significant(SelectSeq(mantissa,
                                            LAMBDA c : c \in decimal)),
                      Fraction(mantissa), exponent,
                      Significant(Unsigned(exponent)))
        DecimalAt(u, e) ==
            Decimal(SubSeq(u, 1, e - 1), SubSeq(u, e + 1, Len(u)), e <= Len(u))
        Literal(t, u) ==
            \/ /\ u = <<"I", "n", "f", "i", "n", "i", "t", "y">>
               /\ (t = u \/ t[1] = "+")
            \/ Radix(t, {"x", "X"},
                     decimal \cup {"a", "b", "c", "d", "e", "f",
                                   "A", "B", "C", "D", "E", "F"})
            \/ Radix(t, {"o", "O"}, {"0", "1", "2", "3", "4", "5", "6", "7"})
            \/ Radix(t, {"b", "B"}, {"0", "1"})
            \/ /\ (t = u \/ t[1] = "+")
               /\ DecimalAt(u, ExpAt(u))
        Number(t) == Literal(t, Unsigned(t))
    IN  Number(Trimmed(inked))

\* v > 0, which turns v into a number
GreaterThanZero(v) ==
    IF ToPrimitiveThrows(v) THEN TypeError
    ELSE IF IsUndef(v) THEN FALSE
    ELSE IF IsScalar(v)
    THEN \/ v.scalar = sTrue
         \/ v.scalar \notin {sNull, sFalse} /\ TextGreaterThanZero(v.scalar)
    ELSE TextGreaterThanZero(ToText(v))

-----------------------------------------------------------------------------
(* parser.ts                                                               *)

ENTITY_TYPES ==
    {sScreen, sDialog, sEvent, sAction, sComponent, sLayout, sEntity, sContext}

NoEntityId == [valid |-> FALSE]

\* parseEntityId(key): null is NoEntityId
parseEntityId(key) ==
    LET parts == Split(key, ":")
    IN  IF Len(parts) = 1
        THEN IF parts[1] \in ENTITY_TYPES
             THEN [valid |-> TRUE, type |-> parts[1], epic |-> <<>>,
                   name |-> parts[1]]
             ELSE NoEntityId
        ELSE IF parts[1] \notin ENTITY_TYPES THEN NoEntityId
        ELSE IF Len(parts) = 2
        THEN [valid |-> TRUE, type |-> parts[1], epic |-> <<>>,
              name |-> parts[2]]
        ELSE [valid |-> TRUE, type |-> parts[1], epic |-> parts[2],
              name |-> Join(SubSeq(parts, 3, Len(parts)), ":")]

\* the loop  while ((match = REFERENCE_PATTERN_GLOBAL.exec(value)) !== null)
\* from lastIndex = from - 1: the references pushed, in order
RECURSIVE SigilRefs(_, _, _)
SigilRefs(value, sourceId, from) ==
    LET match == ReferenceExec(value, from)
    IN  IF match.found
        THEN <<[source |-> sourceId,
                target |-> match.g1 \o <<":">> \o ReplaceDots(match.g2),
                targetType |-> match.g1]>>
             \o SigilRefs(value, sourceId, match.next)
        ELSE <<>>

\* the bare pattern applied once, without the loop
BareRefsFirstOnly(value, sourceId, from) ==
    LET match == BareComponentExec(value, from)
    IN  IF match.found
        THEN <<[source |-> sourceId,
                target |-> sComponent \o <<":">> \o ReplaceDots(match.g1),
                targetType |-> sComponent]>>
        ELSE <<>>

\* the loop over BARE_COMPONENT_PATTERN_GLOBAL
RECURSIVE BareRefs(_, _, _)
BareRefs(value, sourceId, from) ==
    LET match == BareComponentExec(value, from)
    IN  IF match.found
        THEN <<[source |-> sourceId,
                target |-> sComponent \o <<":">> \o ReplaceDots(match.g1),
                targetType |-> sComponent]>>
             \o BareRefs(value, sourceId, match.next)
        ELSE <<>>

\* extractReferences(value, sourceId, path, refs): the references it pushes
\* to refs, in order.  The diagnostic path of a reference is not modelled.
RECURSIVE extractReferences(_, _)
RECURSIVE ExtractFromItems(_, _, _)
extractReferences(value, sourceId) ==
    IF IsStr(value)
    THEN SigilRefs(value.str, sourceId, 1) \o BareRefs(value.str, sourceId, 1)
    ELSE IF IsList(value) THEN ExtractFromItems(value.list, sourceId, 1)
    ELSE IF IsMap(value)
    THEN ExtractFromItems([i \in DOMAIN value.map |-> value.map[i].v],
                          sourceId, 1)
    ELSE <<>>

ExtractFromItems(items, sourceId, i) ==
    IF i > Len(items) THEN <<>>
    ELSE extractReferences(items[i], sourceId)
         \o ExtractFromItems(items, sourceId, i + 1)

\* parseComponents(raw, parentId): item.value of an item that is null
\* throws, and so does the template literal of the fallback id for a
\* parentId that cannot be turned into a string; nothing up to the store
\* catches it
RECURSIVE parseComponents(_, _)
parseComponents(raw, parentId) ==
    IF ~Truthy(raw) \/ ~IsList(raw) THEN <<>>
    ELSE
        LET compId(item, value, index) ==
                IF Truthy(Get(item, sId)) THEN AsHeld(Get(item, sId))
                ELSE IF IsStr(value) /\ Truthy(value) THEN value.str
                ELSE IF Throws(TextOf(parentId)) THEN TypeError
                ELSE TextOf(parentId) \o <<"_">> \o NatToStr(index)
            compType(item) ==
                IF Truthy(Get(item, sType)) THEN AsHeld(Get(item, sType))
                ELSE IF Truthy(Get(item, sComponents)) THEN sComponents
                ELSE sUnknown
            Nested(item, id) ==
                IF Truthy(Get(item, sComponents))
                THEN parseComponents(Get(item, sComponents), id)
                ELSE <<>>
            Comp(item, value, id, nested) ==
                IF Throws(nested) THEN TypeError
                ELSE [id |-> id,
                      type |-> compType(item),
                      value |-> value,
                      action |-> Get(item, sAction),
                      hasComponents |-> Truthy(Get(item, sComponents)),
                      components |-> nested]
            WithId(item, value, id) ==
                IF Throws(id) THEN TypeError
                ELSE Comp(item, value, id, Nested(item, id))
            WithValue(item, value, index) ==
                IF Throws(value) THEN TypeError
                ELSE WithId(item, value, compId(item, value, index))
            Component(item, index) ==
                WithValue(item, Get(item, sValue), index)
            AllOf(comps) ==
                IF \E n \in DOMAIN comps : Throws(comps[n]) THEN TypeError
                ELSE comps
        IN  AllOf([n \in DOMAIN raw.list |-> Component(raw.list[n], n - 1)])

\* A document is modelled by what YAML.parse makes of it: a value, or
\* BadYaml when YAML.parse throws.
BadYaml == [bad |-> TRUE]

YamlThrows(content) == "bad" \in DOMAIN content

\* a set that keeps the entry a key already has
MapSetKeepFirst(m, id, val) ==
    IF \E i \in DOMAIN m : m[i].id = id THEN m ELSE Append(m, val)

\* Map.prototype.set on a Map kept as a sequence of entries
MapSet(m, id, val) ==
    IF \E i \in DOMAIN m : m[i].id = id
    THEN [i \in DOMAIN m |-> IF m[i].id = id THEN val ELSE m[i]]
    ELSE Append(m, val)

MapHas(m, id) == \E i \in DOMAIN m : m[i].id = id

MapGet(m, id) == m[CHOOSE i \in DOMAIN m : m[i].id = id]

\* what YAML.parse throws for a document it rejects
YamlError == [throws |-> "YAMLParseError"]

EmptyParsed ==
    [entities |-> <<>>, references |-> <<>>, epics |-> <<>>, tags |-> <<>>,
     referencedIds |-> {}]

\* entities, references, epicsSet and tagsSet before the first entry
NothingParsed ==
    [entities |-> <<>>, references |-> <<>>, epicsSet |-> {}, tagsSet |-> {}]

\* Array.isArray(rawValue.tags) ? rawValue.tags.filter(string) : []
EntityTags(rawValue) ==
    LET tags == Get(rawValue, sTags)
        strings == IF IsList(tags) THEN SelectSeq(tags.list, IsStr) ELSE <<>>
    IN  [i \in DOMAIN strings |-> strings[i].str]

\* the ParsedBmf returned for what the loops collected; a throw passes
ParsedOf(r) ==
    IF Throws(r) THEN r
    ELSE [entities |-> r.entities,
          references |-> r.references,
          epics |-> SortTexts(r.epicsSet),
          tags |-> SortTexts(r.tagsSet),
          referencedIds |-> {r.references[i].target :
                                i \in DOMAIN r.references}]

\* the body of  Object.entries(parsed).forEach  for the entries from i on;
\* acc is what the entries before i collected
RECURSIVE ParseEntries(_, _, _)
ParseEntries(entries, i, acc) ==
    IF i > Len(entries) THEN acc
    ELSE
        LET Collected(key, value, entityInfo, entityTags, components) ==
                IF Throws(components) THEN TypeError
                ELSE ParseEntries(entries, i + 1,
                        [entities |->
                            MapSet(acc.entities, key,
                                [id |-> key,
                                 type |-> entityInfo.type,
                                 epic |-> entityInfo.epic,
                                 name |-> entityInfo.name,
                                 tags |-> entityTags,
                                 components |-> components,
                                 effects |-> Get(value, sEffects),
                                 raw |-> value]),
                         references |->
                            acc.references \o extractReferences(value, key),
                         epicsSet |->
                            IF Len(entityInfo.epic) > 0
                            THEN acc.epicsSet \cup {entityInfo.epic}
                            ELSE acc.epicsSet,
                         tagsSet |-> acc.tagsSet \cup Range(entityTags)])
            Entry(key, value, entityInfo) ==
                IF ~entityInfo.valid \/ ~Truthy(value) \/ ~IsObject(value)
                THEN ParseEntries(entries, i + 1, acc)
                ELSE Collected(key, value, entityInfo, EntityTags(value),
                        parseComponents(Get(value, sComponents), key))
        IN  Entry(entries[i].k, entries[i].v, parseEntityId(entries[i].k))

\* parseBmfYaml(yamlContent)
parseBmfYaml(yamlContent) ==
    IF YamlThrows(yamlContent) THEN YamlError
    ELSE IF ~Truthy(yamlContent) \/ ~IsObject(yamlContent) THEN EmptyParsed
    ELSE
        LET entries ==
                IF IsMap(yamlContent) THEN yamlContent.map
                ELSE [i \in DOMAIN yamlContent.list |->
                        [k |-> NatToStr(i - 1), v |-> yamlContent.list[i]]]
        IN  ParsedOf(ParseEntries(entries, 1, NothingParsed))

\* allEntities.set(id, entity) for every entity of one document
RECURSIVE SetAll(_, _, _)
SetAll(all, ents, i) ==
    IF i > Len(ents) THEN all
    ELSE SetAll(MapSet(all, ents[i].id, ents[i]), ents, i + 1)

\* the body of  files.forEach  for the documents from i on; a document
\* for which parseBmfYaml throws ends the loop
RECURSIVE ParseFilesFrom(_, _, _)
ParseFilesFrom(fs, i, acc) ==
    IF i > Len(fs) \/ Throws(acc) THEN acc
    ELSE
        LET Merged(p) ==
                IF Throws(p) THEN p
                ELSE [entities |-> SetAll(acc.entities, p.entities, 1),
                      references |-> acc.references \o p.references,
                      epicsSet |-> acc.epicsSet \cup Range(p.epics),
                      tagsSet |-> acc.tagsSet \cup Range(p.tags)]
        IN  ParseFilesFrom(fs, i + 1, Merged(parseBmfYaml(fs[i])))

\* parseBmfFiles(files)
parseBmfFiles(fs) == ParsedOf(ParseFilesFrom(fs, 1, NothingParsed))

-----------------------------------------------------------------------------
(* graphBuilder.ts                                                         *)

\* A FlatComponent.  reference is <<>> when the code leaves it undefined
\* (a reference string is never empty, so  if (comp.reference)  is
\* Len(reference) > 0).
FlatComponent(id, type, depth, ref) ==
    [id |-> id, type |-> type, depth |-> depth,
     reference |-> IF ref.isRef THEN ref.reference ELSE <<>>,
     referenceType |-> IF ref.isRef THEN ref.referenceType ELSE <<>>]

\* Array.isArray(x) ? x : [x]
AsArray(x) == IF IsList(x) THEN x.list ELSE <<x>>

\* what two steps push one after the other, or the throw of the first of
\* them that throws
Pushed(first, second) ==
    IF Throws(first) THEN first
    ELSE IF Throws(second) THEN second
    ELSE first \o second

\* extractConditionComponents(conditions, parentId, depth): the loop from
\* element i on, with the running condIndex.  The template literals of
\* the ids and of the label of a condition throw for a parentId and an
\* if that cannot be turned into a string.
RECURSIVE ExtractConditionsFrom(_, _, _, _, _)
ExtractConditionsFrom(conditions, i, condIndex, parentId, depth) ==
    IF i > Len(conditions) THEN <<>>
    ELSE
        LET Rest(index) ==
                ExtractConditionsFrom(conditions, i + 1, index, parentId,
                                      depth)
            Effect(ref) ==
                IF ~ref.isRef THEN <<>>
                ELSE IF Throws(TextOf(parentId)) THEN TypeError
                ELSE <<FlatComponent(
                         TextOf(parentId) \o <<"_">> \o sEffect
                             \o <<"_">> \o NatToStr(condIndex),
                         sEffect, depth, ref)>>
            Branch(value, id, type) ==
                IF Truthy(value)
                THEN Pushed(<<FlatComponent(id, type, depth + 1,
                                            NoReference)>>,
                            ExtractConditionsFrom(AsArray(value), 1, 0, id,
                                                  depth + 2))
                ELSE <<>>
            Condition(cond, condId) ==
                Pushed(<<FlatComponent(condId, sCondition, depth,
                                       NoReference)>>,
                    Pushed(Branch(Get(cond, sThen),
                                  condId \o <<"_">> \o sThen, sThen),
                           Branch(Get(cond, sElse),
                                  condId \o <<"_">> \o sElse, sElse)))
            IfRecord(cond) ==
                IF \/ Throws(TextOf(parentId))
                   \/ ToPrimitiveThrows(Get(cond, sIf))
                THEN TypeError
                ELSE Condition(cond,
                        TextOf(parentId) \o <<"_", "c", "o", "n", "d", "_">>
                            \o NatToStr(condIndex))
            Element(cond) ==
                IF IsStr(cond)
                THEN Pushed(Effect(extractReference(cond.str)),
                            Rest(condIndex + 1))
                ELSE IF Truthy(cond) /\ IsObject(cond) /\ HasKey(cond, sIf)
                THEN Pushed(IfRecord(cond), Rest(condIndex + 1))
                ELSE Rest(condIndex)
        IN  Element(conditions[i])

extractConditionComponents(conditions, parentId, depth) ==
    ExtractConditionsFrom(conditions, 1, 0, parentId, depth)

\* FlattenFrom giving nested components their parent's depth
RECURSIVE FlattenFromSameDepth(_, _, _)
FlattenFromSameDepth(comps, i, depth) ==
    IF i > Len(comps) THEN <<>>
    ELSE
        LET Referred(valueToCheck) ==
                IF ~Truthy(valueToCheck) THEN NoReference
                ELSE IF ToPrimitiveThrows(valueToCheck) THEN TypeError
                ELSE extractReference(ToText(valueToCheck))
            Own(comp, ref) ==
                IF Throws(ref) THEN TypeError
                ELSE <<FlatComponent(comp.id, comp.type, depth, ref)>>
            Flat(comp) ==
                Pushed(Own(comp,
                           Referred(IF Truthy(comp.action) THEN comp.action
                                    ELSE IF IsStr(comp.value) THEN comp.value
                                    ELSE Undef)),
                    Pushed(IF /\ ~IsNotAString(comp.type)
                              /\ comp.type = sTrigger
                              /\ IsList(comp.value)
                           THEN extractConditionComponents(comp.value.list,
                                    comp.id, depth + 1)
                           ELSE <<>>,
                           IF comp.hasComponents
                           THEN FlattenFromSameDepth(comp.components, 1,
                                                     depth)
                           ELSE <<>>))
        IN  Pushed(Flat(comps[i]), FlattenFromSameDepth(comps, i + 1, depth))

\* flattenComponents(components, depth): the loop from component i on.
\* RegExp.prototype.exec throws for a valueToCheck that cannot be turned
\* into a string.
RECURSIVE FlattenFrom(_, _, _)
FlattenFrom(comps, i, depth) ==
    IF i > Len(comps) THEN <<>>
    ELSE
        LET Referred(valueToCheck) ==
                IF ~Truthy(valueToCheck) THEN NoReference
                ELSE IF ToPrimitiveThrows(valueToCheck) THEN TypeError
                ELSE extractReference(ToText(valueToCheck))
            Own(comp, ref) ==
                IF Throws(ref) THEN TypeError
                ELSE <<FlatComponent(comp.id, comp.type, depth, ref)>>
            Flat(comp) ==
                Pushed(Own(comp,
                           Referred(IF Truthy(comp.action) THEN comp.action
                                    ELSE IF IsStr(comp.value) THEN comp.value
                                    ELSE Undef)),
                    Pushed(IF /\ ~IsNotAString(comp.type)
                              /\ comp.type = sTrigger
                              /\ IsList(comp.value)
                           THEN extractConditionComponents(comp.value.list,
                                    comp.id, depth + 1)
                           ELSE <<>>,
                           IF comp.hasComponents
                           THEN FlattenFrom(comp.components, 1, depth + 1)
                           ELSE <<>>))
        IN  Pushed(Flat(comps[i]), FlattenFrom(comps, i + 1, depth))

flattenComponents(comps, depth) == FlattenFrom(comps, 1, depth)

\* flattenEffects(effects, entityId)
flattenEffects(effects, entityId) ==
    IF ~Truthy(effects) \/ ~IsList(effects) THEN <<>>
    ELSE extractConditionComponents(effects.list, entityId, 0)

\* entity.effects.length > 0  throws: the length of effects that are a
\* mapping is the value under its key length
LengthThrows(effects) ==
    Truthy(effects) /\ ToPrimitiveThrows(Get(effects, sLength))

\* entity.effects && entity.effects.length > 0
HasEffects(entity) ==
    IF ~Truthy(entity.effects) THEN FALSE
    ELSE GreaterThanZero(Get(entity.effects, sLength))

\* IsVisible without the test that keeps component entities out
IsVisibleComponentsToo(entity, p) ==
    IF LengthThrows(entity.effects) THEN TypeError
    ELSE \/ Len(entity.components) > 0
         \/ HasEffects(entity)
         \/ entity.id \in p.referencedIds

\* IsVisible without the referencedIds test
IsVisibleUnreferenced(entity, p) ==
    IF entity.type = sComponent THEN FALSE
    ELSE IF LengthThrows(entity.effects) THEN TypeError
    ELSE \/ Len(entity.components) > 0
         \/ HasEffects(entity)

\* the test of buildGraph's first pass for one entity; hasEffects is
\* computed whatever hasComponents is
IsVisible(entity, p) ==
    IF entity.type = sComponent THEN FALSE
    ELSE IF LengthThrows(entity.effects) THEN TypeError
    ELSE \/ Len(entity.components) > 0
         \/ HasEffects(entity)
         \/ entity.id \in p.referencedIds

\* buildGraph, first pass: the test throws for one of the entities
FirstPassThrows(p) ==
    \E i \in DOMAIN p.entities :
        /\ p.entities[i].type # sComponent
        /\ LengthThrows(p.entities[i].effects)

\* buildGraph, first pass: visibleEntities
VisibleEntities(p) ==
    IF FirstPassThrows(p) THEN TypeError
    ELSE {p.entities[i].id :
            i \in {j \in DOMAIN p.entities : IsVisible(p.entities[j], p)}}

FlatComponentsOf(entity) ==
    Pushed(flattenComponents(entity.components, 0),
           flattenEffects(entity.effects, entity.id))

\* OutgoingFrom without  if (!outgoing.has(comp.reference)) : the last
\* component that points at a target names the anchor
RECURSIVE OutgoingFromLastWins(_, _, _, _)
OutgoingFromLastWins(flat, i, visible, outgoing) ==
    IF i > Len(flat) THEN outgoing
    ELSE
        LET comp == flat[i]
            hit == /\ Len(comp.reference) > 0
                   /\ comp.reference \in visible
            known == \E k \in DOMAIN outgoing :
                          outgoing[k].target = comp.reference
        IN  OutgoingFromLastWins(flat, i + 1, visible,
                IF hit /\ known
                THEN [k \in DOMAIN outgoing |->
                        IF outgoing[k].target = comp.reference
                        THEN [target |-> comp.reference,
                              componentId |-> comp.id]
                        ELSE outgoing[k]]
                ELSE IF hit
                THEN Append(outgoing, [target |-> comp.reference,
                                       componentId |-> comp.id])
                ELSE outgoing)

\* buildGraph, second pass: the Map outgoing of one node, as a sequence of
\* [target, componentId] in insertion order
RECURSIVE OutgoingFrom(_, _, _, _)
OutgoingFrom(flat, i, visible, outgoing) ==
    IF i > Len(flat) THEN outgoing
    ELSE
        LET comp == flat[i]
            add == /\ Len(comp.reference) > 0
                   /\ comp.reference \in visible
                   /\ ~\E k \in DOMAIN outgoing :
                          outgoing[k].target = comp.reference
        IN  OutgoingFrom(flat, i + 1, visible,
                IF add
                THEN Append(outgoing, [target |-> comp.reference,
                                       componentId |-> comp.id])
                ELSE outgoing)

\* buildGraph, second pass: nodes
BuildNodes(p, visible) ==
    LET ents == SelectSeq(p.entities, LAMBDA e : e.id \in visible)
        \* (entity.effects?.length ?? 0) > 0  throws
        OptionalLengthThrows(effects) ==
            /\ ~IsUndef(effects)
            /\ ~IsNull(effects)
            /\ ToPrimitiveThrows(Get(effects, sLength))
        Node(entity, flatComponents) ==
            IF Throws(flatComponents) THEN TypeError
            ELSE IF /\ Len(entity.components) = 0
                    /\ OptionalLengthThrows(entity.effects)
            THEN TypeError
            ELSE [id |-> entity.id,
                  type |-> entity.type,
                  epic |-> entity.epic,
                  name |-> entity.name,
                  components |-> flatComponents,
                  tags |-> entity.tags,
                  hasComponents |->
                     \/ Len(entity.components) > 0
                     \/ /\ ~IsUndef(entity.effects)
                        /\ ~IsNull(entity.effects)
                        /\ GreaterThanZero(Get(entity.effects, sLength)),
                  isReferenced |-> entity.id \in p.referencedIds]
        AllOf(nodes) ==
            IF \E n \in DOMAIN nodes : Throws(nodes[n]) THEN TypeError
            ELSE nodes
    IN  AllOf([i \in DOMAIN ents |-> Node(ents[i], FlatComponentsOf(ents[i]))])

\* targetEntity?.type || fallback
TargetType(p, targetId, fallback) ==
    IF MapHas(p.entities, targetId) THEN MapGet(p.entities, targetId).type
    ELSE fallback

\* buildGraph, third pass: the inner forEach over one source's targets.
\* acc is [edges, edgeSet].
RECURSIVE ComponentEdgesOf(_, _, _, _, _)
ComponentEdgesOf(p, sourceId, targets, k, acc) ==
    IF k > Len(targets) THEN acc
    ELSE
        LET targetId == targets[k].target
            edgeKey == sourceId \o sArrow \o targetId
        IN  ComponentEdgesOf(p, sourceId, targets, k + 1,
                IF edgeKey \in acc.edgeSet THEN acc
                ELSE [edges |-> Append(acc.edges,
                          [id |-> edgeKey,
                           source |-> sourceId,
                           target |-> targetId,
                           sourceElement |-> <<targets[k].componentId>>,
                           targetType |-> TargetType(p, targetId, sUnknown)]),
                      edgeSet |-> acc.edgeSet \cup {edgeKey}])

\* buildGraph, third pass: outgoingEdges.forEach over the nodes from i on
RECURSIVE ComponentEdgesFrom(_, _, _, _, _)
ComponentEdgesFrom(p, nodes, visible, i, acc) ==
    IF i > Len(nodes) THEN acc
    ELSE ComponentEdgesFrom(p, nodes, visible, i + 1,
            ComponentEdgesOf(p, nodes[i].id,
                OutgoingFrom(nodes[i].components, 1, visible, <<>>), 1, acc))

\* ReferenceEdgesFrom without the test that the target is visible
RECURSIVE ReferenceEdgesAnyTarget(_, _, _, _)
ReferenceEdgesAnyTarget(p, visible, i, acc) ==
    IF i > Len(p.references) THEN acc
    ELSE
        LET ref == p.references[i]
            edgeKey == ref.source \o sArrow \o ref.target
        IN  ReferenceEdgesAnyTarget(p, visible, i + 1,
                IF \/ ref.source \notin visible
                   \/ edgeKey \in acc.edgeSet
                THEN acc
                ELSE [edges |-> Append(acc.edges,
                          [id |-> edgeKey,
                           source |-> ref.source,
                           target |-> ref.target,
                           sourceElement |-> <<>>,
                           targetType |->
                               TargetType(p, ref.target, ref.targetType)]),
                      edgeSet |-> acc.edgeSet \cup {edgeKey}])

\* ReferenceEdgesFrom without the edgeSet test
RECURSIVE ReferenceEdgesNoDedup(_, _, _, _)
ReferenceEdgesNoDedup(p, visible, i, acc) ==
    IF i > Len(p.references) THEN acc
    ELSE
        LET ref == p.references[i]
            edgeKey == ref.source \o sArrow \o ref.target
        IN  ReferenceEdgesNoDedup(p, visible, i + 1,
                IF \/ ref.source \notin visible
                   \/ ref.target \notin visible
                THEN acc
                ELSE [edges |-> Append(acc.edges,
                          [id |-> edgeKey,
                           source |-> ref.source,
                           target |-> ref.target,
                           sourceElement |-> <<>>,
                           targetType |->
                               TargetType(p, ref.target, ref.targetType)]),
                      edgeSet |-> acc.edgeSet \cup {edgeKey}])

\* buildGraph, last pass: parsed.references.forEach from reference i on
\* buildGraph without its pass over the raw references
ReferenceEdgesNone(p, visible, i, acc) == acc

RECURSIVE ReferenceEdgesFrom(_, _, _, _)
ReferenceEdgesFrom(p, visible, i, acc) ==
    IF i > Len(p.references) THEN acc
    ELSE
        LET ref == p.references[i]
            edgeKey == ref.source \o sArrow \o ref.target
        IN  ReferenceEdgesFrom(p, visible, i + 1,
                IF \/ ref.source \notin visible
                   \/ ref.target \notin visible
                   \/ edgeKey \in acc.edgeSet
                THEN acc
                ELSE [edges |-> Append(acc.edges,
                          [id |-> edgeKey,
                           source |-> ref.source,
                           target |-> ref.target,
                           sourceElement |-> <<>>,
                           targetType |->
                               TargetType(p, ref.target, ref.targetType)]),
                      edgeSet |-> acc.edgeSet \cup {edgeKey}])

\* buildGraph(parsed); a throw of the first or the second pass passes
buildGraph(p) ==
    LET fromComponents(nodes, visible) ==
            ComponentEdgesFrom(p, nodes, visible, 1,
                               [edges |-> <<>>, edgeSet |-> {}])
        WithEdges(nodes, visible) ==
            IF Throws(nodes) THEN TypeError
            ELSE [nodes |-> nodes,
                  edges |-> ReferenceEdgesFrom(p, visible, 1,
                                 fromComponents(nodes, visible)).edges]
        WithNodes(visible) == WithEdges(BuildNodes(p, visible), visible)
    IN  IF FirstPassThrows(p) THEN TypeError
        ELSE WithNodes(VisibleEntities(p))

\* getConnectedNodes(nodeId, edges)
getConnectedNodes(nodeId, edges) ==
    {nodeId}
        \cup {edges[i].target : i \in {j \in DOMAIN edges : edges[j].source = nodeId}}
        \cup {edges[i].source : i \in {j \in DOMAIN edges : edges[j].target = nodeId}}

-----------------------------------------------------------------------------
(* The documents the store is given                                        *)

\* the most documents in one load
MaxFiles == 2

EntityId(type, rest) == Join(<<type>> \o rest, ":")

\* "$type<sep>seg<sep>seg"
Sigil(type, rest, sep) == <<"$">> \o Join(<<type>> \o rest, sep)

idA == EntityId(sScreen, <<<<"e">>, <<"a">>>>)
idB == EntityId(sAction, <<<<"e">>, <<"b">>>>)
idC == EntityId(sComponent, <<<<"e">>, <<"c">>>>)
idD == EntityId(sDialog, <<<<"d">>>>)
idZ == EntityId(sScreen, <<<<"e">>, <<"z", "z">>>>)

\* the ids under which a document holds a single record; action:e:b
\* stands in the documents of two entities
Keys == {idA, idC, idD}

refA == Sigil(sScreen, <<<<"e">>, <<"a">>>>, ":")
refADots == Sigil(sScreen, <<<<"e">>, <<"a">>>>, ".")
refB == Sigil(sAction, <<<<"e">>, <<"b">>>>, ":")
refBDots == Sigil(sAction, <<<<"e">>, <<"b">>>>, ".")
refD == Sigil(sDialog, <<<<"d">>>>, ":")
refZ == Sigil(sScreen, <<<<"e">>, <<"z", "z">>>>, ":")

\* a record with components: two of them and a trigger condition point at
\* screen:e:a, and a plain field points at action:e:b
RecComponents ==
    Map(<<
        [k |-> sComponents, v |-> List(<<
            Map(<<[k |-> sId, v |-> Str(<<"x">>)],
                  [k |-> sAction, v |-> Str(refA)]>>),
            Map(<<[k |-> sValue, v |-> Str(refADots)]>>),
            Map(<<[k |-> sType, v |-> Str(sTrigger)],
                  [k |-> sValue, v |-> List(<<
                      Str(refB),
                      Map(<<[k |-> sIf, v |-> Str(<<"c">>)],
                            [k |-> sThen, v |-> Str(refA)]>>)>>)]>>),
            Map(<<[k |-> sComponents, v |-> List(<<Str(<<"y">>)>>)]>>)>>)],
        [k |-> sTo, v |-> Str(refB)]>>)

\* a record with effects: a bare string and an if/then/else
RecEffects ==
    Map(<<
        [k |-> sEffects, v |-> List(<<
            Str(refB),
            Map(<<[k |-> sIf, v |-> Str(<<"c">>)],
                  [k |-> sThen, v |-> Str(refD)],
                  [k |-> sElse, v |-> List(<<Str(idC)>>)]>>)>>)]>>)

\* a record with neither components nor effects, whose fields hold
\* references: one twice, one dangling
RecFields ==
    Map(<<
        [k |-> sTo, v |-> Str(refA)],
        [k |-> sDescription,
         v |-> Str(refBDots \o <<",", " ">> \o refZ \o <<" ">> \o refA)]>>)

RecEmpty == Map(<<>>)

Records == {RecComponents, RecEffects, RecEmpty}

Doc1(key, rec) == Map(<<[k |-> key, v |-> rec]>>)

Docs ==
    {BadYaml, Null}
    \cup {Doc1(key, rec) : key \in Keys, rec \in Records}
    \cup {Map(<<[k |-> <<"m", "e", "t", "a">>, v |-> RecFields],
                [k |-> idD, v |-> RecComponents]>>),
          Map(<<[k |-> idA, v |-> RecComponents],
                [k |-> idB, v |-> RecEffects]>>),
          Map(<<[k |-> idB, v |-> RecFields],
                [k |-> idD, v |-> RecEmpty]>>)}

\* the worked examples: an action whose effect points at a screen without
\* components, and a chain of effect references
idFinish == EntityId(sAction, <<<<"t">>, <<"f", "i", "n", "i", "s", "h">>>>)
idResults == EntityId(sScreen, <<<<"t">>, <<"r", "e", "s", "u", "l", "t", "s">>>>)
idChainA == EntityId(sAction, <<<<"a">>>>)
idChainB == EntityId(sAction, <<<<"b">>>>)
idChainC == EntityId(sScreen, <<<<"c">>>>)

RecEffectTo(target) ==
    Map(<<[k |-> sEffects, v |-> List(<<Str(<<"$">> \o target)>>)]>>)

DocFinish ==
    Map(<<[k |-> idFinish, v |-> RecEffectTo(idResults)],
          [k |-> idResults, v |-> RecEmpty]>>)

DocChain ==
    Map(<<[k |-> idChainA, v |-> RecEffectTo(idChainB)],
          [k |-> idChainB, v |-> RecEffectTo(idChainC)],
          [k |-> idChainC,
           v |-> Map(<<[k |-> sComponents,
                        v |-> List(<<Str(<<"x">>)>>)]>>)]>>)

\* an action whose effects hold a string without a reference, a reference
\* and a condition whose branch is a string without a reference
sNotify == <<"n", "o", "t", "i", "f", "y">>

DocPlainEffect ==
    Map(<<[k |-> idFinish,
           v |-> Map(<<[k |-> sEffects, v |-> List(<<
                    Str(sNotify),
                    Str(<<"$">> \o idResults),
                    Map(<<[k |-> sIf, v |-> Str(<<"c">>)],
                          [k |-> sThen, v |-> Str(sNotify)]>>)>>)]>>)],
          [k |-> idResults, v |-> RecEmpty]>>)

\* a screen with two components of one string value, both pointing at an
\* action
DocTwins ==
    Map(<<[k |-> idChainC,
           v |-> Map(<<[k |-> sComponents, v |-> List(<<
                    Map(<<[k |-> sValue, v |-> Str(<<"$">> \o idChainA)]>>),
                    Map(<<[k |-> sValue,
                          v |-> Str(<<"$">> \o idChainA)]>>)>>)]>>)],
          [k |-> idChainA, v |-> RecEmpty]>>)

\* a _comments.yaml: comments on two entities, an entry without ref
\* between them, then an empty entry and a comment after it
DocComments ==
    Map(<<[k |-> sComments, v |-> List(<<
            Map(<<[k |-> sRef, v |-> Str(idFinish)],
                  [k |-> <<"t", "e", "x", "t">>, v |-> Str(<<"a">>)]>>),
            Map(<<[k |-> <<"t", "e", "x", "t">>, v |-> Str(<<"b">>)]>>),
            Map(<<[k |-> sRef, v |-> Str(idResults)]>>),
            Null,
            Map(<<[k |-> sRef, v |-> Str(idChainA)]>>)>>)]>>)

\* the folder of scenario 1 with comments written by the viewer
CommentedFolder == <<DocFinish, DocComments>>

ScenarioFiles ==
    {<<DocFinish>>, <<DocChain>>, <<DocPlainEffect>>, <<DocTwins>>,
     CommentedFolder}

\* a screen whose list of components holds null
DocNullComponent ==
    Map(<<[k |-> idA,
           v |-> Map(<<[k |-> sComponents, v |-> List(<<Null>>)]>>)]>>)

sBeta == <<"b", "e", "t", "a">>
sAlpha == <<"a", "l", "p", "h", "a">>

\* entities with tags: a list in which one tag is a number, and a string
\* in the place of the list
DocTagged ==
    Map(<<[k |-> idA,
           v |-> Map(<<[k |-> sTags,
                        v |-> List(<<Str(sBeta), Scalar(<<"7">>),
                                     Str(sAlpha)>>)],
                       [k |-> sTo, v |-> Str(refD)]>>)],
          [k |-> idD,
           v |-> Map(<<[k |-> sTags, v |-> Str(sBeta)],
                       [k |-> sTo, v |-> Str(refA)]>>)]>>)

\* a screen with a key that is an array index after its other key, an
\* action that is a list, a condition whose then is the number 0 and
\* effects that are no list but have a length
DocLoose ==
    Map(<<[k |-> idA,
           v |-> Map(<<[k |-> sComponents, v |-> List(<<
                        Map(<<[k |-> sAction, v |-> List(<<Str(refD)>>)]>>),
                        Map(<<[k |-> sAction, v |-> Scalar(<<"0">>)],
                              [k |-> sValue, v |-> Str(refB)]>>),
                        Map(<<[k |-> sType, v |-> Str(sTrigger)],
                              [k |-> sValue, v |-> List(<<
                                  Map(<<[k |-> sIf, v |-> Str(<<"c">>)],
                                        [k |-> sThen, v |-> Scalar(<<"0">>)],
                                        [k |-> sElse,
                                         v |-> Str(refB)]>>)>>)]>>)>>)],
                       [k |-> <<"1">>, v |-> Str(refB)]>>)],
          [k |-> idB,
           v |-> Map(<<[k |-> sEffects,
                        v |-> Map(<<[k |-> sLength,
                                     v |-> Scalar(<<"2">>)]>>)]>>)],
          [k |-> idD, v |-> Map(<<[k |-> sEffects, v |-> Scalar(<<"0">>)]>>)]>>)

\* a mapping with the key toString, which cannot be turned into a string
NoText == Map(<<[k |-> sToString, v |-> Str(<<"x">>)]>>)

\* a component whose id is such a mapping, with a nested component that
\* takes its id from it
DocNoTextId ==
    Map(<<[k |-> idA,
           v |-> Map(<<[k |-> sComponents, v |-> List(<<
                        Map(<<[k |-> sId, v |-> NoText],
                              [k |-> sComponents,
                               v |-> List(<<Map(<<>>)>>)]>>)>>)]>>)],
          [k |-> idD, v |-> Map(<<>>)]>>)

\* a component whose action is such a mapping
DocNoTextAction ==
    Map(<<[k |-> idA,
           v |-> Map(<<[k |-> sComponents, v |-> List(<<
                        Map(<<[k |-> sAction, v |-> NoText]>>)>>)]>>)],
          [k |-> idD, v |-> Map(<<>>)]>>)

\* entities that nothing refers to and that have no components, with
\* effects that are no list: a string, a mapping whose length is a numeric
\* string after an Ogham space mark, a mapping without a length, and the
\* empty string
DocOddEffects ==
    Map(<<[k |-> idA, v |-> Map(<<[k |-> sEffects, v |-> Str(sNotify)]>>)],
          [k |-> idB,
           v |-> Map(<<[k |-> sEffects,
                        v |-> Map(<<[k |-> sLength,
                                     v |-> Str(<<" ", "5">>)]>>)]>>)],
          [k |-> idD,
           v |-> Map(<<[k |-> sEffects,
                        v |-> Map(<<[k |-> <<"a">>,
                                     v |-> Scalar(<<"1">>)]>>)]>>)],
          [k |-> idZ, v |-> Map(<<[k |-> sEffects, v |-> Str(<<>>)]>>)]>>)

\* documents outside what the format describes
LooseFiles ==
    {<<DocNullComponent>>, <<DocChain, DocNullComponent>>, <<DocTagged>>,
     <<DocLoose>>, <<DocNoTextId>>, <<DocNoTextAction>>, <<DocOddEffects>>}

FileSets ==
    UNION {[1..n -> Docs] : n \in 1..MaxFiles}
        \cup ScenarioFiles \cup LooseFiles

-----------------------------------------------------------------------------
(* bmfStore.ts                                                             *)

\* the StoredFilters record kept under FILTERS_KEY
FilterRecord(types, epics, tags) ==
    [hiddenTypes |-> types, hiddenEpics |-> epics, hiddenTags |-> tags]

EmptyFilters == FilterRecord({}, {}, {})

\* getFiltersFromStorage(): three empty sets when nothing is stored
getFiltersFromStorage ==
    IF storedFilters = <<>> THEN EmptyFilters ELSE storedFilters[1]

\* saveFiltersToStorage(hiddenTypes, hiddenEpics, hiddenTags): the content
\* of localStorage after the call; a setItem that throws is ignored
saveFiltersToStorage(types, epics, tags) ==
    IF storageWritable THEN <<FilterRecord(types, epics, tags)>>
    ELSE storedFilters

sNoTags == <<"_", "n", "o", "_", "t", "a", "g", "s">>

\* extractFilters(graph), as sets
extractFilters(g) ==
    [types |-> {g.nodes[i].type : i \in DOMAIN g.nodes},
     epics |-> {g.nodes[i].epic : i \in {j \in DOMAIN g.nodes :
                                            g.nodes[j].epic # <<>>}},
     tags |-> UNION {Range(g.nodes[i].tags) : i \in DOMAIN g.nodes}]

\* the stored hidden values that exist in the graph
validHidden(g) ==
    LET stored == getFiltersFromStorage
        found == extractFilters(g)
    IN  FilterRecord(
            {t \in stored.hiddenTypes : t \in found.types},
            {e \in stored.hiddenEpics : e \in found.epics},
            {t \in stored.hiddenTags : t = sNoTags \/ t \in found.tags})

StoreInit ==
    /\ loaded = FALSE
    /\ loading = FALSE
    /\ error = "null"
    /\ fileName = <<>>
    /\ parsed = <<>>
    /\ graph = <<>>
    /\ directoryHandle = <<>>
    /\ selectedNodeId = <<>>
    /\ connectedNodes = {}
    /\ hiddenTypes = getFiltersFromStorage.hiddenTypes
    /\ hiddenEpics = getFiltersFromStorage.hiddenEpics
    /\ hiddenTags = getFiltersFromStorage.hiddenTags
    /\ comments = {}
    /\ lastToggle = <<>>
    /\ refreshing = <<>>

\* history of the calls of refreshFolder: every call still reading its
\* folder has from now on a load or a reset after it
Overtaken(calls) ==
    [r \in DOMAIN calls |->
        IF calls[r].state = "reading"
        THEN [calls[r] EXCEPT !.overtaken = TRUE]
        ELSE calls[r]]

\* localStorage holds an empty filter record and accepts writes
StorageEmpty ==
    /\ storedFilters = <<EmptyFilters>>
    /\ storageWritable = TRUE

\* e.message in a catch handler: what parseBmfYaml, parseBmfFiles,
\* buildGraph and the read of a folder throw is an Error, so the handler
\* reports its message and never its own text.  The message is named by
\* the kind of the Error.
MessageOf(thrown) == thrown.throws

\* the catch handler of loadFromYaml and of loadFromFiles
loadFails(thrown) ==
    /\ loading' = FALSE
    /\ error' = MessageOf(thrown)
    /\ UNCHANGED <<files, loaded, parsed, graph, selectedNodeId,
                   connectedNodes, refreshing, filterVars>>

\* loadFromYaml(content, fileName), content one of the documents
loadFromYaml(content) ==
    LET Built(p, g) ==
            IF Throws(g) THEN loadFails(g)
            ELSE /\ loaded' = TRUE
                 /\ loading' = FALSE
                 /\ error' = "null"
                 /\ fileName' = <<"file">>
                 /\ parsed' = <<p>>
                 /\ graph' = <<g>>
                 /\ selectedNodeId' = <<>>
                 /\ connectedNodes' = {}
                 /\ hiddenTypes' = validHidden(graph'[1]).hiddenTypes
                 /\ hiddenEpics' = validHidden(graph'[1]).hiddenEpics
                 /\ hiddenTags' = validHidden(graph'[1]).hiddenTags
                 /\ lastToggle' = <<>>
                 /\ refreshing' = Overtaken(refreshing)
                 /\ UNCHANGED <<files, directoryHandle, comments,
                                storedFilters, storageWritable>>
        Parsed(p) == IF Throws(p) THEN loadFails(p)
                     ELSE Built(p, buildGraph(p))
    IN  Parsed(parseBmfYaml(content))

LoadFromYaml ==
    /\ \E i \in DOMAIN files : loadFromYaml(files[i])
    /\ UNCHANGED outsideStore

\* the dirHandle argument of loadFromFiles: absent, or a handle; the
\* worked examples are the folders opened through the directory picker
DirHandles(fs) ==
    {<<>>} \cup (IF fs \in ScenarioFiles THEN {<<"dir">>} ELSE {})

\* The Map files is given by its values fs, in insertion order, and by
\* the place among them of the value under the key "_comments.yaml", 0
\* when the Map has no such key: a document that holds comments lies
\* under that name, or under another name or in a folder below
CommentsPlaces(fs) ==
    {0} \cup {i \in DOMAIN fs : fs[i] = DocComments}

\* files.get(COMMENTS_FILENAME)
CommentsContent(fs, commentsAt) ==
    IF commentsAt = 0 THEN Undef ELSE fs[commentsAt]

\* the body of  parsed.comments.forEach  for the entries from i on: an
\* entry without ref is passed over; reading the ref of an entry that is
\* null throws, which ends the loop with the comments set so far
RECURSIVE CommentsFrom(_, _, _)
CommentsFrom(items, i, acc) ==
    IF i > Len(items) THEN acc
    ELSE IF Throws(Get(items[i], sRef)) THEN acc
    ELSE IF ~Truthy(Get(items[i], sRef))
    THEN CommentsFrom(items, i + 1, acc)
    ELSE CommentsFrom(items, i + 1,
                      acc \cup {AsHeld(Get(items[i], sRef))})

\* the comments loadFromFiles and refreshFolder take from the content of
\* _comments.yaml: none without the file, for a content YAML.parse
\* rejects or for one without a list of comments.  (The empty text,
\* which the code does not parse, is parsed to null: no comments either.)
LoadedComments(commentsContent) ==
    IF IsUndef(commentsContent) \/ YamlThrows(commentsContent) THEN {}
    ELSE IF /\ Truthy(commentsContent)
            /\ Truthy(Get(commentsContent, sComments))
            /\ IsList(Get(commentsContent, sComments))
    THEN CommentsFrom(Get(commentsContent, sComments).list, 1, {})
    ELSE {}

\* loadFromFiles(files, folderName, dirHandle)
loadFromFiles(fs, commentsAt, dirHandle) ==
    LET Built(p, g) ==
            IF Throws(g) THEN loadFails(g)
            ELSE /\ loaded' = TRUE
                 /\ loading' = FALSE
                 /\ error' = "null"
                 /\ fileName' = <<"folder">>
                 /\ parsed' = <<p>>
                 /\ graph' = <<g>>
                 /\ directoryHandle' = dirHandle
                 /\ selectedNodeId' = <<>>
                 /\ connectedNodes' = {}
                 /\ hiddenTypes' = validHidden(graph'[1]).hiddenTypes
                 /\ hiddenEpics' = validHidden(graph'[1]).hiddenEpics
                 /\ hiddenTags' = validHidden(graph'[1]).hiddenTags
                 /\ comments' =
                        LoadedComments(CommentsContent(fs, commentsAt))
                 /\ lastToggle' = <<>>
                 /\ refreshing' = Overtaken(refreshing)
                 /\ UNCHANGED <<files, storedFilters, storageWritable>>
        Parsed(p) == IF Throws(p) THEN loadFails(p)
                     ELSE Built(p, buildGraph(p))
    IN  Parsed(parseBmfFiles(fs))

LoadFromFiles ==
    /\ \E commentsAt \in CommentsPlaces(files) :
            \E dirHandle \in DirHandles(files) :
                loadFromFiles(files, commentsAt, dirHandle)
    /\ UNCHANGED outsideStore

\* setDirectoryHandle(handle)
setDirectoryHandle(handle) ==
    /\ directoryHandle' = handle
    /\ UNCHANGED <<storeVars, fileName, hiddenTypes, hiddenEpics, hiddenTags,
                   comments, storedFilters, storageWritable, lastToggle>>

SetDirectoryHandle ==
    /\ \E handle \in DirHandles(files) : setDirectoryHandle(handle)
    /\ UNCHANGED outsideStore

\* a reset that leaves the file name and the comments of the last load
resetKeepingSome ==
    /\ storedFilters' = saveFiltersToStorage({}, {}, {})
    /\ loaded' = FALSE
    /\ loading' = FALSE
    /\ error' = "null"
    /\ parsed' = <<>>
    /\ graph' = <<>>
    /\ directoryHandle' = <<>>
    /\ selectedNodeId' = <<>>
    /\ connectedNodes' = {}
    /\ hiddenTypes' = {}
    /\ hiddenEpics' = {}
    /\ hiddenTags' = {}
    /\ lastToggle' = <<>>
    /\ refreshing' = Overtaken(refreshing)
    /\ UNCHANGED <<files, fileName, comments, storageWritable>>

\* reset()
reset ==
    /\ storedFilters' = saveFiltersToStorage({}, {}, {})
    /\ loaded' = FALSE
    /\ loading' = FALSE
    /\ error' = "null"
    /\ fileName' = <<>>
    /\ parsed' = <<>>
    /\ graph' = <<>>
    /\ directoryHandle' = <<>>
    /\ selectedNodeId' = <<>>
    /\ connectedNodes' = {}
    /\ hiddenTypes' = {}
    /\ hiddenEpics' = {}
    /\ hiddenTags' = {}
    /\ comments' = {}
    /\ lastToggle' = <<>>
    /\ refreshing' = Overtaken(refreshing)
    /\ UNCHANGED <<files, storageWritable>>

\* selectNode(nodeId), nodeId the id of a node of the graph, or null
selectNode(nodeId) ==
    IF nodeId = <<>> \/ graph = <<>>
    THEN /\ selectedNodeId' = <<>>
         /\ connectedNodes' = {}
         /\ UNCHANGED <<files, loaded, loading, error, parsed, graph,
                        refreshing, filterVars>>
    ELSE /\ selectedNodeId' = nodeId
         /\ connectedNodes' = getConnectedNodes(nodeId[1], graph[1].edges)
         /\ UNCHANGED <<files, loaded, loading, error, parsed, graph,
                        refreshing, filterVars>>

Reset ==
    /\ reset
    /\ UNCHANGED outsideStore

SelectNode ==
    /\ \E nodeId \in {<<>>} \cup
            (IF graph = <<>> THEN {}
             ELSE {<<graph[1].nodes[i].id>> : i \in DOMAIN graph[1].nodes}) :
            selectNode(nodeId)
    /\ UNCHANGED outsideStore

\* a toggle that only ever hides
ToggledAddOnly(hidden, item) == hidden \cup {item}

\* newHidden: a copy of the set, with the item deleted if it has it and
\* added if not
Toggled(hidden, item) ==
    IF item \in hidden THEN hidden \ {item} ELSE hidden \cup {item}

\* history of the toggles: the hidden sets before the current run of calls
\* of one toggle with one argument, and whether the run's length is odd;
\* kept by the actions that call a toggle where the history is looked at
ToggleRun(kind, item) ==
    IF /\ lastToggle # <<>>
       /\ lastToggle[1].kind = kind
       /\ lastToggle[1].item = item
    THEN <<[lastToggle[1] EXCEPT !.odd = ~@]>>
    ELSE <<[kind |-> kind, item |-> item,
            origin |-> FilterRecord(hiddenTypes, hiddenEpics, hiddenTags),
            odd |-> TRUE]>>

\* toggleType(type)
toggleType(type) ==
    LET newHidden == Toggled(hiddenTypes, type)
    IN  /\ storedFilters' =
                saveFiltersToStorage(newHidden, hiddenEpics, hiddenTags)
        /\ hiddenTypes' = newHidden
        /\ UNCHANGED <<storeVars, fileName, directoryHandle, hiddenEpics,
                       hiddenTags, comments, storageWritable>>

\* toggleEpic(epic)
toggleEpic(epic) ==
    LET newHidden == Toggled(hiddenEpics, epic)
    IN  /\ storedFilters' =
                saveFiltersToStorage(hiddenTypes, newHidden, hiddenTags)
        /\ hiddenEpics' = newHidden
        /\ UNCHANGED <<storeVars, fileName, directoryHandle, hiddenTypes,
                       hiddenTags, comments, storageWritable>>

\* toggleTag(tag)
toggleTag(tag) ==
    LET newHidden == Toggled(hiddenTags, tag)
    IN  /\ storedFilters' =
                saveFiltersToStorage(hiddenTypes, hiddenEpics, newHidden)
        /\ hiddenTags' = newHidden
        /\ UNCHANGED <<storeVars, fileName, directoryHandle, hiddenTypes,
                       hiddenEpics, comments, storageWritable>>

\* addComment(entityId, text)
addComment(entityId) ==
    /\ comments' = comments \cup {entityId}
    /\ UNCHANGED <<storeVars, fileName, directoryHandle, hiddenTypes,
                   hiddenEpics, hiddenTags, storedFilters, storageWritable,
                   lastToggle>>

\* removeComment(entityId)
removeComment(entityId) ==
    /\ comments' = comments \ {entityId}
    /\ UNCHANGED <<storeVars, fileName, directoryHandle, hiddenTypes,
                   hiddenEpics, hiddenTags, storedFilters, storageWritable,
                   lastToggle>>

\* the variables of the layout analysis, while it is not running
EpicIdle ==
    /\ layoutNodes = <<>>
    /\ layoutEdges = <<>>
    /\ epicStats = <<>>
    /\ communities = <<>>
    /\ phase = "idle"
    /\ layoutedGraph = <<>>
    /\ layoutedNodes = <<>>

\* no string is being scanned
TextIdle ==
    /\ text = <<>>
    /\ refsOut = <<>>
    /\ refOut = <<>>

\* the navigation graph is not mounted
EffectIdle ==
    /\ effectPending = FALSE
    /\ lastLayoutKeyRef = <<>>
    /\ requests = <<>>
    /\ cleanupOf = 0
    /\ flowNodes = <<>>
    /\ flowEdges = <<>>
    /\ isLayouting = FALSE

Init ==
    /\ files \in FileSets
    /\ StorageEmpty
    /\ StoreInit
    /\ EpicIdle
    /\ EffectIdle
    /\ TextIdle

Next ==
    \/ LoadFromYaml
    \/ LoadFromFiles
    \/ SetDirectoryHandle
    \/ Reset

Spec == Init /\ [][Next]_vars

-----------------------------------------------------------------------------
(* Properties of the built graph                                           *)

NodeIdsOf(g) == {g.nodes[i].id : i \in DOMAIN g.nodes}

EntitiesOf(p) == {p.entities[i] : i \in DOMAIN p.entities}

\* how many elements of a sequence satisfy a test
Count(seq, Test(_)) == Cardinality({i \in DOMAIN seq : Test(seq[i])})

\* C1: every edge of the built graph has its source and its target among
\* the nodes of the same graph.
C1_EdgesJoinNodes ==
    graph # <<>> =>
        \A i \in DOMAIN graph[1].edges :
            /\ graph[1].edges[i].source \in NodeIdsOf(graph[1])
            /\ graph[1].edges[i].target \in NodeIdsOf(graph[1])

\* A graph with an edge that comes from a component, an edge that comes
\* from a raw reference only, and a raw reference of a node whose target is
\* no node and got no edge.
C1_Witness ==
    /\ graph # <<>>
    /\ \E i \in DOMAIN graph[1].edges : graph[1].edges[i].sourceElement # <<>>
    /\ \E i \in DOMAIN graph[1].edges : graph[1].edges[i].sourceElement = <<>>
    /\ \E i \in DOMAIN parsed[1].references :
            /\ parsed[1].references[i].source \in NodeIdsOf(graph[1])
            /\ parsed[1].references[i].target \notin NodeIdsOf(graph[1])

\* C2: no entity of type "component" is a node of the built graph.
C2_ComponentsAreNotNodes ==
    graph # <<>> =>
        /\ \A e \in EntitiesOf(parsed[1]) :
                e.type = sComponent => e.id \notin NodeIdsOf(graph[1])
        /\ \A i \in DOMAIN graph[1].nodes :
                graph[1].nodes[i].type # sComponent

\* A graph built from an input with a component entity that has components
\* of its own and is the target of a reference, and another built from one
\* with a referenced component entity with effects.
C2_Witness ==
    /\ graph # <<>>
    /\ Len(graph[1].nodes) > 0
    /\ \E e \in EntitiesOf(parsed[1]) :
            /\ e.type = sComponent
            /\ Len(e.components) > 0 \/ HasEffects(e)
            /\ e.id \in parsed[1].referencedIds

\* the number of entries of an entity's effects list
NumEffectEntries(e) == IF IsList(e.effects) THEN Len(e.effects.list) ELSE 0

\* the statement with effect entries: the node ids are exactly the ids of
\* the entities that are not of type "component" and have a component, an
\* entry in their list of effects or a reference to them, each once
C3_NodesHaveEffectEntries ==
    graph # <<>> =>
        /\ NodeIdsOf(graph[1]) =
                {e.id : e \in {x \in EntitiesOf(parsed[1]) :
                    /\ x.type # sComponent
                    /\ \/ Len(x.components) >= 1
                       \/ NumEffectEntries(x) >= 1
                       \/ x.id \in parsed[1].referencedIds}}
        /\ \A i, j \in DOMAIN graph[1].nodes :
                graph[1].nodes[i].id = graph[1].nodes[j].id => i = j

\* the effects have a length greater than zero: a list with an entry, a
\* string with a character, or a mapping whose key length holds a value
\* that is greater than zero as a number
PositiveLength(effects) ==
    \/ IsList(effects) /\ Len(effects.list) >= 1
    \/ IsStr(effects) /\ Len(effects.str) >= 1
    \/ /\ IsMap(effects)
       /\ \E k \in DOMAIN effects.map :
                /\ effects.map[k].k = sLength
                /\ GreaterThanZero(effects.map[k].v)

\* C3: the node ids are exactly the ids of the entities that are not of
\* type "component" and have a component, effects whose length is greater
\* than zero or a reference to them, each once.
C3_NodesAreTheVisibleEntities ==
    graph # <<>> =>
        /\ NodeIdsOf(graph[1]) =
                {e.id : e \in {x \in EntitiesOf(parsed[1]) :
                    /\ x.type # sComponent
                    /\ \/ Len(x.components) >= 1
                       \/ PositiveLength(x.effects)
                       \/ x.id \in parsed[1].referencedIds}}
        /\ \A i, j \in DOMAIN graph[1].nodes :
                graph[1].nodes[i].id = graph[1].nodes[j].id => i = j

\* A graph with a node that is a node only because its effects, a string,
\* have a length, and a node that is one only because of the length its
\* effects hold under that key, built from an input with entities that
\* are no nodes though not components: one has effects without a length,
\* one has the empty string for effects.
C3_Witness ==
    /\ graph # <<>>
    /\ \E e \in EntitiesOf(parsed[1]) :
            /\ e.id \in NodeIdsOf(graph[1])
            /\ Len(e.components) = 0
            /\ e.id \notin parsed[1].referencedIds
            /\ IsStr(e.effects)
    /\ \E e \in EntitiesOf(parsed[1]) :
            /\ e.id \in NodeIdsOf(graph[1])
            /\ Len(e.components) = 0
            /\ e.id \notin parsed[1].referencedIds
            /\ IsMap(e.effects)
    /\ \E e \in EntitiesOf(parsed[1]) :
            /\ e.type # sComponent
            /\ e.id \notin NodeIdsOf(graph[1])
            /\ IsMap(e.effects)
    /\ \E e \in EntitiesOf(parsed[1]) :
            /\ e.type # sComponent
            /\ e.id \notin NodeIdsOf(graph[1])
            /\ IsStr(e.effects)

\* C4: the edge list holds at most one edge for an ordered pair of source
\* and target.
C4_OneEdgePerPair ==
    graph # <<>> =>
        \A i, j \in DOMAIN graph[1].edges :
            (/\ graph[1].edges[i].source = graph[1].edges[j].source
             /\ graph[1].edges[i].target = graph[1].edges[j].target)
                => i = j

\* An edge whose target is referenced by two components of its source and
\* by two raw references of its source.
C4_Witness ==
    /\ graph # <<>>
    /\ \E i \in DOMAIN graph[1].edges :
        LET e == graph[1].edges[i]
            n == CHOOSE k \in DOMAIN graph[1].nodes :
                    graph[1].nodes[k].id = e.source
            FromComp(c) == c.reference = e.target
            FromRef(r) == r.source = e.source /\ r.target = e.target
        IN  /\ Count(graph[1].nodes[n].components, FromComp) >= 2
            /\ Count(parsed[1].references, FromRef) >= 2

\* C7: when loadFromFiles meets a document that does not parse, the failure
\* is reported and the entities of every other document are in the store's
\* parsed data and the graph is built from them.
C7_OtherDocumentsSurvive ==
    (/\ error = MessageOf(YamlError)
     /\ \E i \in DOMAIN files : YamlThrows(files[i])
     /\ \E i \in DOMAIN files :
            /\ ~Throws(parseBmfYaml(files[i]))
            /\ Len(parseBmfYaml(files[i]).entities) > 0)
        => /\ parsed # <<>>
           /\ graph # <<>>
           /\ \A i \in DOMAIN files :
                ~Throws(parseBmfYaml(files[i])) =>
                    \A k \in DOMAIN parseBmfYaml(files[i]).entities :
                        MapHas(parsed[1].entities,
                               parseBmfYaml(files[i]).entities[k].id)

\* the synthetic types of extractConditionComponents
SyntheticTypes == {sEffect, sCondition, sThen, sElse}

\* how many digits s ends with
RECURSIVE TrailingDigits(_)
TrailingDigits(s) ==
    IF Len(s) > 0 /\ s[Len(s)] \in Digits
    THEN 1 + TrailingDigits(SubSeq(s, 1, Len(s) - 1))
    ELSE 0

\* the id a synthetic component's id was derived from: the id without its
\* last  _then, _else, _effect_<n>  or  _cond_<n>
ParentIdOf(f) ==
    LET cut == IF f.type \in {sThen, sElse} THEN 5
               ELSE IF f.type = sEffect THEN 8 + TrailingDigits(f.id)
               ELSE 6 + TrailingDigits(f.id)
    IN  SubSeq(f.id, 1, Len(f.id) - cut)

\* the components of a parsed component tree, each with its level in the
\* tree: <<id, level>>, the roots at level
RECURSIVE LevelsOf(_, _)
LevelsOf(comps, level) ==
    UNION {{<<comps[i].id, level>>} \cup LevelsOf(comps[i].components, level + 1)
            : i \in DOMAIN comps}

\* C25: within one node of the graph the ids of the flattened components
\* are pairwise distinct.
C25_ComponentIdsDistinct ==
    graph # <<>> =>
        \A n \in DOMAIN graph[1].nodes :
            \A i, j \in DOMAIN graph[1].nodes[n].components :
                i # j => graph[1].nodes[n].components[i].id
                            # graph[1].nodes[n].components[j].id

\* the places of the documents of fs that define the entity id
DefinedAt(fs, id) ==
    {i \in DOMAIN fs :
        /\ ~Throws(parseBmfYaml(fs[i]))
        /\ MapHas(parseBmfYaml(fs[i]).entities, id)}

\* the entity ids that several documents of fs define
CollidingIds(fs) ==
    {id \in UNION {{parseBmfYaml(fs[i]).entities[k].id :
                        k \in DOMAIN parseBmfYaml(fs[i]).entities} :
                    i \in {j \in DOMAIN fs : ~Throws(parseBmfYaml(fs[j]))}} :
        Cardinality(DefinedAt(fs, id)) >= 2}

\* the place of the last document of fs that defines id
LastAt(fs, id) ==
    CHOOSE i \in DefinedAt(fs, id) : \A j \in DefinedAt(fs, id) : j <= i

\* the store holds the result of parseBmfFiles
FolderParsed == fileName = <<"folder">> /\ parsed # <<>>

\* C14: when several documents given to parseBmfFiles define one entity id,
\* the entity map holds exactly one entity for that id, the one of the last
\* of these documents, and a folder load fails only when parseBmfYaml
\* throws for one of the documents on its own or buildGraph throws for
\* what parseBmfFiles returned.
C14_LastDocumentWins ==
    /\ FolderParsed =>
            \A id \in CollidingIds(files) :
                /\ Cardinality({k \in DOMAIN parsed[1].entities :
                                    parsed[1].entities[k].id = id}) = 1
                /\ MapGet(parsed[1].entities, id) =
                        MapGet(parseBmfYaml(files[LastAt(files, id)]).entities,
                               id)
    /\ error # "null" =>
            \/ \E i \in DOMAIN files : Throws(parseBmfYaml(files[i]))
            \/ Throws(buildGraph(parseBmfFiles(files)))

\* a folder is loaded in which two documents give one id different records
C14_Witness ==
    /\ FolderParsed
    /\ error = "null"
    /\ \E id \in CollidingIds(files) :
            \E i \in DefinedAt(files, id) :
                MapGet(parseBmfYaml(files[i]).entities, id) #
                    MapGet(parsed[1].entities, id)

\* the references of the records that are in the entity map: those a
\* document holds under an id that no later document defines again
WinningReferences(fs) ==
    UNION {{parseBmfYaml(fs[i]).references[k] :
                k \in {j \in DOMAIN parseBmfYaml(fs[i]).references :
                    LastAt(fs, parseBmfYaml(fs[i]).references[j].source) = i}} :
           i \in {j \in DOMAIN fs : ~Throws(parseBmfYaml(fs[j]))}}

\* C27: after a collision across the documents of a folder the graph shows
\* the winning records only: every edge from a colliding id, and every node
\* that is visible through referencedIds alone, goes back to a reference of
\* a record that is in the entity map.
C27_GraphOfWinningRecords ==
    (FolderParsed /\ graph # <<>>) =>
        /\ \A i \in DOMAIN graph[1].edges :
                graph[1].edges[i].source \in CollidingIds(files) =>
                    \E r \in WinningReferences(files) :
                        /\ r.source = graph[1].edges[i].source
                        /\ r.target = graph[1].edges[i].target
        /\ \A n \in DOMAIN graph[1].nodes :
                (CollidingIds(files) # {} /\ ~graph[1].nodes[n].hasComponents)
                    => \E r \in WinningReferences(files) :
                            r.target = graph[1].nodes[n].id

\* C12: in a node's flattened list, a parsed component stands at the depth
\* of its level in the component tree (roots 0, children one more than
\* their parent), and a synthetic component derived from another one
\* (trigger condition, then/else marker, branch content) stands one deeper
\* than it; top-level effects stand at depth 0.
C12_ChildOneDeeper ==
    graph # <<>> =>
        \A n \in DOMAIN graph[1].nodes :
            LET node == graph[1].nodes[n]
                flat == node.components
                entity == MapGet(parsed[1].entities, node.id)
            IN  \A k \in DOMAIN flat :
                    IF flat[k].type \in SyntheticTypes
                    THEN IF ParentIdOf(flat[k]) = node.id
                         THEN flat[k].depth = 0
                         ELSE \E j \in 1..(k - 1) :
                                /\ flat[j].id = ParentIdOf(flat[k])
                                /\ flat[k].depth = flat[j].depth + 1
                    ELSE <<flat[k].id, flat[k].depth>>
                            \in LevelsOf(entity.components, 0)

\* A node with a nested component at depth 1 and, under a trigger, a
\* condition at depth 1, its then marker at depth 2 and the branch's effect
\* at depth 3; and a node with a top-level effect.
C12_Witness ==
    /\ graph # <<>>
    /\ \E n \in DOMAIN graph[1].nodes :
        LET flat == graph[1].nodes[n].components
        IN  /\ \E k \in DOMAIN flat :
                    flat[k].type = sUnknown /\ flat[k].depth = 1
            /\ \E k \in DOMAIN flat :
                    flat[k].type = sCondition /\ flat[k].depth = 1
            /\ \E k \in DOMAIN flat :
                    flat[k].type = sThen /\ flat[k].depth = 2
            /\ \E k \in DOMAIN flat :
                    flat[k].type = sEffect /\ flat[k].depth = 3
    /\ \E n \in DOMAIN graph[1].nodes :
        \E k \in DOMAIN graph[1].nodes[n].components :
            LET f == graph[1].nodes[n].components[k]
            IN  f.type = sEffect /\ f.depth = 0
                    /\ ParentIdOf(f) = graph[1].nodes[n].id

EdgePairsOf(g) ==
    {<<g.edges[i].source, g.edges[i].target>> : i \in DOMAIN g.edges}

\* C13: every raw reference whose source and target are nodes has its
\* edge (source, target) in the graph; the action with an effect pointing
\* at a screen without components gives the two nodes and the one edge,
\* and the chain a -> b -> c gives the three nodes and the two edges.
C13_ReferencesBecomeEdges ==
    graph # <<>> =>
        /\ \A i \in DOMAIN parsed[1].references :
            LET ref == parsed[1].references[i]
            IN  (ref.source \in NodeIdsOf(graph[1])
                    /\ ref.target \in NodeIdsOf(graph[1]))
                => <<ref.source, ref.target>> \in EdgePairsOf(graph[1])
        /\ files = <<DocFinish>> =>
            /\ Len(graph[1].nodes) = 2
            /\ NodeIdsOf(graph[1]) = {idFinish, idResults}
            /\ Len(graph[1].edges) = 1
            /\ EdgePairsOf(graph[1]) = {<<idFinish, idResults>>}
        /\ files = <<DocChain>> =>
            /\ Len(graph[1].nodes) = 3
            /\ NodeIdsOf(graph[1]) = {idChainA, idChainB, idChainC}
            /\ Len(graph[1].edges) = 2
            /\ EdgePairsOf(graph[1]) =
                    {<<idChainA, idChainB>>, <<idChainB, idChainC>>}

\* The chain has been loaded: three nodes, and the raw references a -> b
\* and b -> c are edges.
C13_Witness ==
    /\ files = <<DocChain>>
    /\ graph # <<>>
    /\ Len(parsed[1].references) = 2
    /\ Len(graph[1].nodes) = 3
    /\ <<idChainA, idChainB>> \in EdgePairsOf(graph[1])
    /\ <<idChainB, idChainC>> \in EdgePairsOf(graph[1])

\* the positions in a flattened list of the components that point at target
PointingAt(flat, target) == {k \in DOMAIN flat : flat[k].reference = target}

NodeOf(g, id) == g.nodes[CHOOSE n \in DOMAIN g.nodes : g.nodes[n].id = id]

\* C18: an edge whose target some flattened components of its source point
\* at carries the id of the first of them, in the order of the list, as its
\* anchor; an edge that no component of its source points at has none.
C18_FirstComponentAnchors ==
    graph # <<>> =>
        \A i \in DOMAIN graph[1].edges :
            LET edge == graph[1].edges[i]
                flat == NodeOf(graph[1], edge.source).components
                at == PointingAt(flat, edge.target)
            IN  IF at = {} THEN edge.sourceElement = <<>>
                ELSE edge.sourceElement =
                        <<flat[CHOOSE k \in at : \A j \in at : k <= j].id>>

\* An edge whose target three components of the source point at, anchored
\* at the first, and an edge that comes from a raw reference only.
C18_Witness ==
    /\ graph # <<>>
    /\ \E i \in DOMAIN graph[1].edges :
        LET edge == graph[1].edges[i]
            flat == NodeOf(graph[1], edge.source).components
            at == PointingAt(flat, edge.target)
        IN  /\ Cardinality(at) >= 3
            /\ Cardinality({flat[k].id : k \in at}) >= 3
            /\ edge.sourceElement = <<<<"x">>>>
    /\ \E j \in DOMAIN graph[1].edges :
        /\ graph[1].edges[j].sourceElement = <<>>
        /\ PointingAt(NodeOf(graph[1], graph[1].edges[j].source).components,
                      graph[1].edges[j].target) = {}

StartsWith(s, prefix) ==
    Len(prefix) <= Len(s) /\ SubSeq(s, 1, Len(prefix)) = prefix

\* a flattened component made from the effects of the entity with this id
FromEffects(id, f) ==
    \/ StartsWith(f.id, id \o <<"_">> \o sEffect \o <<"_">>)
    \/ StartsWith(f.id, id \o <<"_", "c", "o", "n", "d", "_">>)

\* cond && typeof cond === 'object' && 'if' in cond, for an entry of a
\* list of effects
IsIfRecord(item) == IsMap(item) /\ \E k \in DOMAIN item.map : item.map[k].k = sIf

\* the entries of the branch of an if/then/else record under key: none
\* when the record has no such key or a falsy value under it, those of
\* the list when the value is a list, and the value itself otherwise
BranchOf(item, key) ==
    LET at == {k \in DOMAIN item.map : item.map[k].k = key}
        v == item.map[CHOOSE k \in at : TRUE].v
    IN  IF at = {} THEN <<>>
        ELSE IF ~Truthy(v) THEN <<>>
        ELSE IF IsList(v) THEN v.list
        ELSE <<v>>

\* the bare strings of an effects list, those of the branches of its
\* if/then/else records included
RECURSIVE BareStringsIn(_)
BareStringsIn(items) ==
    IF Len(items) = 0 THEN 0
    ELSE (IF IsStr(Head(items)) THEN 1
          ELSE IF IsIfRecord(Head(items))
          THEN BareStringsIn(BranchOf(Head(items), sThen))
                + BareStringsIn(BranchOf(Head(items), sElse))
          ELSE 0)
         + BareStringsIn(Tail(items))

\* the if/then/else records of an effects list, nested ones included
RECURSIVE IfRecordsIn(_)
IfRecordsIn(items) ==
    IF Len(items) = 0 THEN 0
    ELSE (IF IsIfRecord(Head(items))
          THEN 1 + IfRecordsIn(BranchOf(Head(items), sThen))
                 + IfRecordsIn(BranchOf(Head(items), sElse))
          ELSE 0)
         + IfRecordsIn(Tail(items))

\* C19: the flattened list of a node holds one "effect" component for
\* every bare string of the entity's effects and one "condition" component
\* for every if/then/else record, the branches included; the components
\* made from the effects stand after all the others.
C19_EveryEffectFlattened ==
    graph # <<>> =>
        \A n \in DOMAIN graph[1].nodes :
            LET node == graph[1].nodes[n]
                flat == node.components
                effects == MapGet(parsed[1].entities, node.id).effects
                Made(f) == FromEffects(node.id, f)
                MadeEffect(f) == Made(f) /\ f.type = sEffect
                MadeCondition(f) == Made(f) /\ f.type = sCondition
            IN  IsList(effects) =>
                    /\ Count(flat, MadeEffect) = BareStringsIn(effects.list)
                    /\ Count(flat, MadeCondition) = IfRecordsIn(effects.list)
                    /\ \A j, k \in DOMAIN flat :
                            (Made(flat[j]) /\ ~Made(flat[k])) => k < j

-----------------------------------------------------------------------------
(* NavigationGraph.tsx: analyzeEpicConnections, detectEpicCommunities      *)
(* Node ids and epic names are opaque here and kept as strings; "" is the  *)
(* empty epic.                                                             *)

\* epics.length <= 3: no clustering up to this many epics
TrivialEpicCount == 3

\* count >= 3: a strong tie
StrongTie == 3

\* addedCount < 2: the most neighbours absorbed below a strong tie
WeakLimit == 2

\* community.length >= 4: the size at which a community stops growing
CommunityCap == 4

\* (node.data as { epic?: string }).epic || 'Other'
EpicOfNode(node) == IF node.epic = "" THEN "Other" ELSE node.epic

\* nodeToEpic.get(id): "" stands for undefined
NodeToEpic(nodes, id) ==
    IF \E i \in DOMAIN nodes : nodes[i].id = id
    THEN EpicOfNode(nodes[CHOOSE i \in DOMAIN nodes :
            nodes[i].id = id /\ \A j \in DOMAIN nodes :
                nodes[j].id = id => j <= i])
    ELSE ""

\* the keys of epicNodes in insertion order: each epic at its first node
RECURSIVE EpicOrder(_, _, _)
EpicOrder(nodes, i, acc) ==
    IF i > Len(nodes) THEN acc
    ELSE EpicOrder(nodes, i + 1,
            IF \E k \in DOMAIN acc : acc[k] = EpicOfNode(nodes[i]) THEN acc
            ELSE Append(acc, EpicOfNode(nodes[i])))

\* epicStats before the pass over the edges
InitialStats(nodes) ==
    LET epics == EpicOrder(nodes, 1, <<>>)
    IN  [k \in DOMAIN epics |->
            [epic |-> epics[k],
             nodeCount |-> Cardinality({nodes[i].id :
                    i \in {j \in DOMAIN nodes : EpicOfNode(nodes[j]) = epics[k]}}),
             internalEdges |-> 0,
             externalEdges |-> 0,
             centrality |-> 0,
             connectedEpics |-> <<>>]]

\* a set that records a neighbour once and never counts further
BumpConnectionOnce(conn, other) ==
    IF \E i \in DOMAIN conn : conn[i].epic = other THEN conn
    ELSE Append(conn, [epic |-> other, count |-> 1])

\* connectedEpics.set(other, (connectedEpics.get(other) || 0) + 1)
BumpConnection(conn, other) ==
    IF \E i \in DOMAIN conn : conn[i].epic = other
    THEN [i \in DOMAIN conn |->
            IF conn[i].epic = other
            THEN [epic |-> other, count |-> conn[i].count + 1]
            ELSE conn[i]]
    ELSE Append(conn, [epic |-> other, count |-> 1])

\* EdgeStep counting a cross edge for the source's epic only
EdgeStepSourceOnly(stats, nodes, edge) ==
    LET sourceEpic == NodeToEpic(nodes, edge.source)
        targetEpic == NodeToEpic(nodes, edge.target)
    IN  IF sourceEpic = "" \/ targetEpic = "" THEN stats
        ELSE [k \in DOMAIN stats |->
                IF sourceEpic = targetEpic
                THEN IF stats[k].epic = sourceEpic
                     THEN [stats[k] EXCEPT !.internalEdges = @ + 1]
                     ELSE stats[k]
                ELSE IF stats[k].epic = sourceEpic
                THEN [stats[k] EXCEPT
                        !.externalEdges = @ + 1,
                        !.connectedEpics = BumpConnection(@, targetEpic)]
                ELSE stats[k]]

\* EdgeStep counting a cross edge in externalEdges for the source's epic
\* only, and in connectedEpics for both
EdgeStepExternalOnce(stats, nodes, edge) ==
    LET sourceEpic == NodeToEpic(nodes, edge.source)
        targetEpic == NodeToEpic(nodes, edge.target)
    IN  IF sourceEpic = "" \/ targetEpic = "" THEN stats
        ELSE [k \in DOMAIN stats |->
                IF sourceEpic = targetEpic
                THEN IF stats[k].epic = sourceEpic
                     THEN [stats[k] EXCEPT !.internalEdges = @ + 1]
                     ELSE stats[k]
                ELSE IF stats[k].epic = sourceEpic
                THEN [stats[k] EXCEPT
                        !.externalEdges = @ + 1,
                        !.connectedEpics = BumpConnection(@, targetEpic)]
                ELSE IF stats[k].epic = targetEpic
                THEN [stats[k] EXCEPT
                        !.connectedEpics = BumpConnection(@, sourceEpic)]
                ELSE stats[k]]

\* the body of  edges.forEach  for one edge
EdgeStep(stats, nodes, edge) ==
    LET sourceEpic == NodeToEpic(nodes, edge.source)
        targetEpic == NodeToEpic(nodes, edge.target)
    IN  IF sourceEpic = "" \/ targetEpic = "" THEN stats
        ELSE [k \in DOMAIN stats |->
                IF sourceEpic = targetEpic
                THEN IF stats[k].epic = sourceEpic
                     THEN [stats[k] EXCEPT !.internalEdges = @ + 1]
                     ELSE stats[k]
                ELSE IF stats[k].epic = sourceEpic
                THEN [stats[k] EXCEPT
                        !.externalEdges = @ + 1,
                        !.connectedEpics = BumpConnection(@, targetEpic)]
                ELSE IF stats[k].epic = targetEpic
                THEN [stats[k] EXCEPT
                        !.externalEdges = @ + 1,
                        !.connectedEpics = BumpConnection(@, sourceEpic)]
                ELSE stats[k]]

RECURSIVE EdgePass(_, _, _, _)
EdgePass(stats, nodes, edges, i) ==
    IF i > Len(edges) THEN stats
    ELSE EdgePass(EdgeStep(stats, nodes, edges[i]), nodes, edges, i + 1)

\* analyzeEpicConnections(nodes, edges).epicStats
analyzeEpicConnections(nodes, edges) ==
    LET counted == EdgePass(InitialStats(nodes), nodes, edges, 1)
    IN  [k \in DOMAIN counted |->
            [counted[k] EXCEPT
                !.centrality = counted[k].externalEdges * 2
                                   + counted[k].internalEdges]]

\* a sort in ascending order
InsertByWeightAscending(sorted, x) ==
    LET n == Cardinality({i \in DOMAIN sorted : sorted[i].w <= x.w})
    IN  SubSeq(sorted, 1, n) \o <<x>> \o SubSeq(sorted, n + 1, Len(sorted))

\* Array.prototype.sort((a, b) => b.w - a.w), which is stable: x goes
\* after the elements that weigh at least as much
InsertByWeight(sorted, x) ==
    LET n == Cardinality({i \in DOMAIN sorted : sorted[i].w >= x.w})
    IN  SubSeq(sorted, 1, n) \o <<x>> \o SubSeq(sorted, n + 1, Len(sorted))

RECURSIVE SortDescFrom(_, _, _)
SortDescFrom(items, i, sorted) ==
    IF i > Len(items) THEN sorted
    ELSE SortDescFrom(items, i + 1, InsertByWeight(sorted, items[i]))

SortDesc(items) == SortDescFrom(items, 1, <<>>)

StatsOf(stats, epic) == stats[CHOOSE k \in DOMAIN stats : stats[k].epic = epic]

\* Absorb without  if (community.length >= 4) break
RECURSIVE AbsorbUncapped(_, _, _)
AbsorbUncapped(connections, i, st) ==
    IF i > Len(connections) THEN st
    ELSE IF connections[i].x.epic \in st.assigned
    THEN AbsorbUncapped(connections, i + 1, st)
    ELSE
        LET take == \/ connections[i].x.count >= StrongTie
                    \/ st.addedCount < WeakLimit
            next ==
                IF take
                THEN [community |->
                          Append(st.community, connections[i].x.epic),
                      assigned |-> st.assigned \cup {connections[i].x.epic},
                      addedCount |-> st.addedCount + 1]
                ELSE st
        IN  AbsorbUncapped(connections, i + 1, next)

\* the  for (const [connectedEpic, count] of connections)  loop from entry
\* i on; st is [community, assigned, addedCount]
RECURSIVE Absorb(_, _, _)
Absorb(connections, i, st) ==
    IF i > Len(connections) THEN st
    ELSE IF connections[i].x.epic \in st.assigned
    THEN Absorb(connections, i + 1, st)
    ELSE
        LET take == \/ connections[i].x.count >= StrongTie
                    \/ st.addedCount < WeakLimit
            next ==
                IF take
                THEN [community |->
                          Append(st.community, connections[i].x.epic),
                      assigned |-> st.assigned \cup {connections[i].x.epic},
                      addedCount |-> st.addedCount + 1]
                ELSE st
        IN  IF Len(next.community) >= CommunityCap THEN next
            ELSE Absorb(connections, i + 1, next)

\* SeedLoop without  if (assignedEpics.has(epic)) return
RECURSIVE SeedLoopReseeding(_, _, _, _)
SeedLoopReseeding(stats, sortedEpics, i, acc) ==
    IF i > Len(sortedEpics) THEN acc
    ELSE
        LET epic == sortedEpics[i]
            assigned == acc.assigned \cup {epic}
            entries == StatsOf(stats, epic).connectedEpics
            open == SelectSeq(entries, LAMBDA e : e.epic \notin assigned)
            connections ==
                SortDesc([k \in DOMAIN open |->
                            [x |-> open[k], w |-> open[k].count]])
            st == Absorb(connections, 1,
                         [community |-> <<epic>>, assigned |-> assigned,
                          addedCount |-> 0])
        IN  SeedLoopReseeding(stats, sortedEpics, i + 1,
                [communities |-> Append(acc.communities,
                     [name |-> "community-" \o ToString(acc.communityIndex),
                      epics |-> st.community]),
                 assigned |-> st.assigned,
                 communityIndex |-> acc.communityIndex + 1])

\* sortedEpics.forEach from epic i on; acc is [communities, assigned,
\* communityIndex]
RECURSIVE SeedLoop(_, _, _, _)
SeedLoop(stats, sortedEpics, i, acc) ==
    IF i > Len(sortedEpics) THEN acc
    ELSE IF sortedEpics[i] \in acc.assigned
    THEN SeedLoop(stats, sortedEpics, i + 1, acc)
    ELSE
        LET epic == sortedEpics[i]
            assigned == acc.assigned \cup {epic}
            entries == StatsOf(stats, epic).connectedEpics
            open == SelectSeq(entries, LAMBDA e : e.epic \notin assigned)
            connections ==
                SortDesc([k \in DOMAIN open |->
                            [x |-> open[k], w |-> open[k].count]])
            st == Absorb(connections, 1,
                         [community |-> <<epic>>, assigned |-> assigned,
                          addedCount |-> 0])
        IN  SeedLoop(stats, sortedEpics, i + 1,
                [communities |-> Append(acc.communities,
                     [name |-> "community-" \o ToString(acc.communityIndex),
                      epics |-> st.community]),
                 assigned |-> st.assigned,
                 communityIndex |-> acc.communityIndex + 1])

\* detectEpicCommunities(epicStats)
detectEpicCommunities(stats) ==
    LET epics == [k \in DOMAIN stats |-> stats[k].epic]
    IN  IF Len(epics) <= TrivialEpicCount
        THEN <<[name |-> "main", epics |-> epics]>>
        ELSE
            LET byCentrality ==
                    SortDesc([k \in DOMAIN stats |->
                                [x |-> stats[k].epic, w |-> stats[k].centrality]])
                sortedEpics == [k \in DOMAIN byCentrality |-> byCentrality[k].x]
            IN  SeedLoop(stats, sortedEpics, 1,
                         [communities |-> <<>>, assigned |-> {},
                          communityIndex |-> 0]).communities

-----------------------------------------------------------------------------
(* The layout analysis on its own: nodes and edges as getClusteredLayout   *)
(* gets them (every edge joins two of the nodes, one edge per ordered      *)
(* pair), then the two steps it takes before the engine is called.         *)

\* how many of the candidate edges an input may use
MaxEdges == 12

EpicNodeList ==
    <<[id |-> "a1", epic |-> "A"], [id |-> "b1", epic |-> "B"],
      [id |-> "a2", epic |-> "A"], [id |-> "c1", epic |-> "C"],
      [id |-> "d1", epic |-> "D"], [id |-> "e1", epic |-> "E"],
      [id |-> "o1", epic |-> ""], [id |-> "o2", epic |-> "Other"]>>

CandidateEdges ==
    <<[source |-> "a1", target |-> "b1"], [source |-> "a2", target |-> "b1"],
      [source |-> "b1", target |-> "a1"], [source |-> "a1", target |-> "c1"],
      [source |-> "c1", target |-> "a2"], [source |-> "a2", target |-> "c1"],
      [source |-> "a1", target |-> "d1"], [source |-> "d1", target |-> "a1"],
      [source |-> "d1", target |-> "a2"], [source |-> "e1", target |-> "a1"],
      [source |-> "a1", target |-> "a2"], [source |-> "d1", target |-> "e1"],
      [source |-> "o1", target |-> "o2"], [source |-> "b1", target |-> "b1"],
      [source |-> "o2", target |-> "a1"], [source |-> "e1", target |-> "e1"]>>

\* the candidate edges with an index in chosen, in the candidates' order
PickEdges(chosen) ==
    LET Pick[i \in 0..Len(CandidateEdges)] ==
            IF i = 0 THEN <<>>
            ELSE IF i \in chosen THEN Append(Pick[i - 1], CandidateEdges[i])
            ELSE Pick[i - 1]
    IN  Pick[Len(CandidateEdges)]

\* a hub: three edges between epic A and each of the epics B, C, D and E
HubEdges ==
    PickEdges(1..10) \o <<[source |-> "a1", target |-> "e1"],
                          [source |-> "e1", target |-> "a2"]>>

EpicInit ==
    /\ \/ \E n \in 0..Len(EpicNodeList) :
            LET nodes == SubSeq(EpicNodeList, 1, n)
                ids == {nodes[i].id : i \in DOMAIN nodes}
                usable == {i \in 1..MaxEdges :
                            /\ i <= Len(CandidateEdges)
                            /\ CandidateEdges[i].source \in ids
                            /\ CandidateEdges[i].target \in ids}
            IN  /\ layoutNodes = nodes
                /\ \E chosen \in SUBSET usable :
                        layoutEdges = PickEdges(chosen)
       \/ /\ layoutNodes = EpicNodeList
          /\ layoutEdges = HubEdges
    /\ epicStats = <<>>
    /\ communities = <<>>
    /\ phase = "input"
    /\ layoutedGraph = <<>>
    /\ layoutedNodes = <<>>
    /\ files = <<>>
    /\ StorageEmpty
    /\ StoreInit
    /\ EffectIdle
    /\ TextIdle

\* const { epicStats, nodeToEpic } = analyzeEpicConnections(nodes, edges)
AnalyzeEpicConnections ==
    /\ phase = "input"
    /\ epicStats' = analyzeEpicConnections(layoutNodes, layoutEdges)
    /\ phase' = "analyzed"
    /\ UNCHANGED <<layoutNodes, layoutEdges, communities, positionVars,
                   outsideEpic>>

\* const communities = detectEpicCommunities(epicStats)
DetectEpicCommunities ==
    /\ phase = "analyzed"
    /\ communities' = detectEpicCommunities(epicStats)
    /\ phase' = "detected"
    /\ UNCHANGED <<layoutNodes, layoutEdges, epicStats, positionVars,
                   outsideEpic>>

EpicNext ==
    \/ AnalyzeEpicConnections
    \/ DetectEpicCommunities

SpecEpic == EpicInit /\ [][EpicNext]_vars

EpicsOf(stats) == {stats[k].epic : k \in DOMAIN stats}

\* the places (community, position) at which an epic stands
PlacesOf(epic) ==
    {<<c, k>> \in (DOMAIN communities) \X (1..Len(EpicNodeList)) :
        /\ k \in DOMAIN communities[c].epics
        /\ communities[c].epics[k] = epic}

\* C8: the communities partition the epics (every epic in exactly one
\* community, once, and nothing else in a community), and up to three
\* epics make exactly one community that holds them all.
C8_CommunitiesPartitionEpics ==
    phase = "detected" =>
        /\ \A epic \in EpicsOf(epicStats) : Cardinality(PlacesOf(epic)) = 1
        /\ \A c \in DOMAIN communities :
                /\ Len(communities[c].epics) <= Len(EpicNodeList)
                /\ \A k \in DOMAIN communities[c].epics :
                        communities[c].epics[k] \in EpicsOf(epicStats)
        /\ Cardinality(EpicsOf(epicStats)) <= 3 =>
                /\ Len(communities) = 1
                /\ Range(communities[1].epics) = EpicsOf(epicStats)

\* More than three epics, clustered into a community that absorbed
\* neighbours and at least one other community.
C8_Witness ==
    /\ phase = "detected"
    /\ Cardinality(EpicsOf(epicStats)) > 3
    /\ Len(communities) >= 2
    /\ \E c \in DOMAIN communities : Len(communities[c].epics) >= 3
    /\ \E c \in DOMAIN communities : Len(communities[c].epics) = 1

\* the epic a node id belongs to, for the nodes of the input
EpicOfId(id) ==
    LET n == CHOOSE i \in DOMAIN layoutNodes : layoutNodes[i].id = id
    IN  IF layoutNodes[n].epic = "" THEN "Other" ELSE layoutNodes[n].epic

\* C10: after the analysis each epic's internalEdges counts the edges with
\* both ends in it, externalEdges the edges with exactly one end in it,
\* and centrality is 2 * externalEdges + internalEdges.
C10_EpicCounters ==
    phase \in {"analyzed", "detected"} =>
        \A k \in DOMAIN epicStats :
            LET st == epicStats[k]
                Inside(e) == /\ EpicOfId(e.source) = st.epic
                             /\ EpicOfId(e.target) = st.epic
                Across(e) == (EpicOfId(e.source) = st.epic)
                                 # (EpicOfId(e.target) = st.epic)
            IN  /\ st.internalEdges = Count(layoutEdges, Inside)
                /\ st.externalEdges = Count(layoutEdges, Across)
                /\ st.centrality = 2 * st.externalEdges + st.internalEdges

\* Two epics joined by exactly two cross edges, no internal edge: both get
\* centrality 4.
C10_Witness ==
    /\ phase = "analyzed"
    /\ Len(epicStats) = 2
    /\ Len(layoutEdges) = 2
    /\ \A k \in DOMAIN epicStats :
            /\ epicStats[k].internalEdges = 0
            /\ epicStats[k].externalEdges = 2
            /\ epicStats[k].centrality = 4

\* connectedEpics.get(other) || 0
WeightToward(st, other) ==
    IF \E i \in DOMAIN st.connectedEpics : st.connectedEpics[i].epic = other
    THEN st.connectedEpics[CHOOSE i \in DOMAIN st.connectedEpics :
                                st.connectedEpics[i].epic = other].count
    ELSE 0

\* C21: after the analysis the pairwise weights are symmetric: for distinct
\* epics A and B the weight A records toward B, the weight B records toward
\* A and the number of edges that join a node of A and a node of B, in
\* either direction, are one number.
C21_WeightsSymmetric ==
    phase \in {"analyzed", "detected"} =>
        \A a, b \in DOMAIN epicStats :
            a # b =>
                LET epicA == epicStats[a].epic
                    epicB == epicStats[b].epic
                    Joins(e) ==
                        \/ /\ EpicOfId(e.source) = epicA
                           /\ EpicOfId(e.target) = epicB
                        \/ /\ EpicOfId(e.source) = epicB
                           /\ EpicOfId(e.target) = epicA
                IN  /\ WeightToward(epicStats[a], epicB)
                            = WeightToward(epicStats[b], epicA)
                    /\ WeightToward(epicStats[a], epicB)
                            = Count(layoutEdges, Joins)

\* two epics joined by edges in both directions, three or more in all
C21_Witness ==
    /\ phase = "analyzed"
    /\ \E a, b \in DOMAIN epicStats :
            /\ a # b
            /\ WeightToward(epicStats[a], epicStats[b].epic) >= 3
            /\ \E i, j \in DOMAIN layoutEdges :
                    /\ EpicOfId(layoutEdges[i].source) = epicStats[a].epic
                    /\ EpicOfId(layoutEdges[i].target) = epicStats[b].epic
                    /\ EpicOfId(layoutEdges[j].source) = epicStats[b].epic
                    /\ EpicOfId(layoutEdges[j].target) = epicStats[a].epic

\* the neighbours an epic's statistics record with a strong tie
StrongNeighbours(st) ==
    {st.connectedEpics[i].epic :
        i \in {j \in DOMAIN st.connectedEpics :
                    st.connectedEpics[j].count >= 3}}

\* C22: no community holds more than 4 epics.
C22_CommunityAtMostFour ==
    phase = "detected" =>
        \A c \in DOMAIN communities : Len(communities[c].epics) <= 4

\* a seed with four strong-tie neighbours made a community of four
C22_Witness ==
    /\ phase = "detected"
    /\ \E c \in DOMAIN communities :
            /\ Len(communities[c].epics) = 4
            /\ Cardinality(StrongNeighbours(
                    StatsOf(epicStats, communities[c].epics[1]))) > 3

\* the epics of the communities before community c, and the seed of c
AssignedAtSeed(c) ==
    UNION {Range(communities[d].epics) : d \in 1..(c - 1)}
        \cup {communities[c].epics[1]}

\* C23: with more than 3 epics, the seeds of the communities come in
\* descending order of centrality; the epics a seed absorbs are neighbours
\* not assigned before, in descending order of weight; while the community
\* is below the cap of 4 every such neighbour with a weight of 3 or more is
\* absorbed (a community that stops at the cap leaves out only neighbours
\* that weigh no more than the ones it took); and at most two of the
\* absorbed neighbours weigh less than 3.
C23_SeedsAndAbsorption ==
    (phase = "detected" /\ Len(epicStats) > 3) =>
        /\ \A c, d \in DOMAIN communities :
                c < d => StatsOf(epicStats, communities[c].epics[1]).centrality
                            >= StatsOf(epicStats,
                                       communities[d].epics[1]).centrality
        /\ \A c \in DOMAIN communities :
                LET members == communities[c].epics
                    seed == StatsOf(epicStats, members[1])
                    absorbed == {members[k] : k \in 2..Len(members)}
                    open == EpicsOf(epicStats) \ AssignedAtSeed(c)
                    strong == {e \in open : WeightToward(seed, e) >= 3}
                IN  /\ \A e \in absorbed :
                            e \in open /\ WeightToward(seed, e) >= 1
                    /\ \A i, j \in 2..Len(members) :
                            i < j => WeightToward(seed, members[i])
                                        >= WeightToward(seed, members[j])
                    /\ Len(members) < 4 => strong \subseteq absorbed
                    /\ \A e \in strong \ absorbed :
                            \A a \in absorbed :
                                WeightToward(seed, a) >= WeightToward(seed, e)
                    /\ Cardinality({e \in absorbed :
                                        WeightToward(seed, e) < 3}) <= 2

\* more than three epics; a seed absorbed a strong-tie neighbour and then a
\* weaker one, a later seed of lower centrality absorbed a neighbour too,
\* and some seed left a weak neighbour out
C23_Witness ==
    /\ phase = "detected"
    /\ Len(epicStats) > 3
    /\ \E c \in DOMAIN communities :
            LET members == communities[c].epics
                seed == StatsOf(epicStats, members[1])
            IN  /\ Len(members) >= 3
                /\ WeightToward(seed, members[2]) >= 3
                /\ WeightToward(seed, members[Len(members)]) < 3
    /\ \E c, d \in DOMAIN communities :
            /\ c < d
            /\ Len(communities[d].epics) >= 2
            /\ StatsOf(epicStats, communities[c].epics[1]).centrality
                    > StatsOf(epicStats, communities[d].epics[1]).centrality
    /\ \E c \in DOMAIN communities :
            LET members == communities[c].epics
                seed == StatsOf(epicStats, members[1])
            IN  /\ Len(members) < 4
                /\ \E e \in EpicsOf(epicStats) \ AssignedAtSeed(c) :
                        /\ WeightToward(seed, e) \in 1..2
                        /\ e \notin Range(members)

\* the sum of a counter over the epics' statistics
SumOf(stats, Counter(_)) ==
    LET S[k \in 0..Len(stats)] ==
            IF k = 0 THEN 0 ELSE S[k - 1] + Counter(stats[k])
    IN  S[Len(stats)]

\* the sum of the pairwise weights an epic records
WeightSum(st) ==
    LET S[k \in 0..Len(st.connectedEpics)] ==
            IF k = 0 THEN 0 ELSE S[k - 1] + st.connectedEpics[k].count
    IN  S[Len(st.connectedEpics)]

\* C30: over edges whose ends are all among the nodes, the counters account
\* for every edge once: the internalEdges of all epics plus half the
\* externalEdges of all epics is the number of edges, and each epic's
\* externalEdges is the sum of its pairwise weights.
C30_EveryEdgeCountedOnce ==
    phase \in {"analyzed", "detected"} =>
        LET Internal(st) == st.internalEdges
            External(st) == st.externalEdges
        IN  /\ 2 * SumOf(epicStats, Internal) + SumOf(epicStats, External)
                    = 2 * Len(layoutEdges)
            /\ \A k \in DOMAIN epicStats :
                    epicStats[k].externalEdges = WeightSum(epicStats[k])

\* three or more epics, edges inside an epic and edges across, and an epic
\* with two neighbours
C30_Witness ==
    /\ phase = "analyzed"
    /\ Len(epicStats) >= 3
    /\ \E k \in DOMAIN epicStats : epicStats[k].internalEdges >= 1
    /\ \E k \in DOMAIN epicStats :
            /\ Len(epicStats[k].connectedEpics) >= 2
            /\ epicStats[k].externalEdges >= 3

-----------------------------------------------------------------------------
(* NavigationGraph.tsx: getClusteredLayout from the analysis to the        *)
(* positions.  The layout engine is outside the program: its answer is the *)
(* graph it was given, with one of a few relative positions on every       *)
(* container and node, and possibly without one of the containers.         *)

\* epicGroups.get(epic): the nodes of an epic, in the order of the input
GroupNodes(nodes, epic) == SelectSeq(nodes, LAMBDA n : EpicOfNode(n) = epic)

\* the ELK node of an epic: id `cluster:${epic}`, one child per node
EpicCluster(nodes, epic) ==
    LET groupNodes == GroupNodes(nodes, epic)
    IN  [id |-> "cluster:" \o epic,
         children |-> [k \in DOMAIN groupNodes |->
                            [id |-> groupNodes[k].id, children |-> <<>>]]]

\* [...epicList].sort by descending centrality, as ELK nodes
ClustersOf(nodes, stats, epicList) ==
    LET sortedEpics ==
            SortDesc([k \in DOMAIN epicList |->
                        [x |-> epicList[k],
                         w |-> StatsOf(stats, epicList[k]).centrality]])
    IN  [k \in DOMAIN sortedEpics |-> EpicCluster(nodes, sortedEpics[k].x)]

\* epicList.reduce((sum, epic) => sum + centrality, 0)
TotalCentrality(stats, epicList) ==
    LET S[k \in 0..Len(epicList)] ==
            IF k = 0 THEN 0
            ELSE S[k - 1] + StatsOf(stats, epicList[k]).centrality
    IN  S[Len(epicList)]

\* rootChildren: superclusters of epic clusters when there are several
\* communities, else the epic clusters
rootChildren(nodes, stats, comms) ==
    IF Len(comms) > 1
    THEN LET sortedCommunities ==
                SortDesc([c \in DOMAIN comms |->
                            [x |-> comms[c],
                             w |-> TotalCentrality(stats, comms[c].epics)]])
         IN  [c \in DOMAIN sortedCommunities |->
                [id |-> "supercluster:" \o sortedCommunities[c].x.name,
                 children |-> ClustersOf(nodes, stats,
                                         sortedCommunities[c].x.epics)]]
    ELSE ClustersOf(nodes, stats, EpicOrder(nodes, 1, <<>>))

\* the ids of the containers and nodes of the ELK graph
ElementIds(children) ==
    {children[i].id : i \in DOMAIN children}
        \cup UNION {{children[i].children[j].id :
                        j \in DOMAIN children[i].children} :
                    i \in DOMAIN children}
        \cup UNION {UNION {{children[i].children[j].children[k].id :
                                k \in DOMAIN children[i].children[j].children} :
                           j \in DOMAIN children[i].children} :
                    i \in DOMAIN children}

\* the relative positions the engine gives
Shifts == {[x |-> 0, y |-> 0], [x |-> 30, y |-> 7]}

\* the engine's answer for one list of children: every element but the
\* dropped one, with its relative position
RECURSIVE Placed(_, _, _)
Placed(children, shiftOf, dropped) ==
    LET kept == SelectSeq(children, LAMBDA c : c.id # dropped)
    IN  [i \in DOMAIN kept |->
            [id |-> kept[i].id,
             x |-> shiftOf[kept[i].id].x,
             y |-> shiftOf[kept[i].id].y,
             children |-> Placed(kept[i].children, shiftOf, dropped)]]

\* nodePositions.set(id, pos) on a Map kept as a sequence of entries
SetPosition(positions, entry) ==
    IF \E i \in DOMAIN positions : positions[i].id = entry.id
    THEN [i \in DOMAIN positions |->
            IF positions[i].id = entry.id THEN entry ELSE positions[i]]
    ELSE Append(positions, entry)

\* extractPositions that does not pass the container's position on
RECURSIVE extractPositionsRelative(_, _, _, _)
extractPositionsRelative(container, offsetX, offsetY, positions) ==
    LET x == offsetX + container.x
        y == offsetY + container.y
        Walk[i \in 0..Len(container.children)] ==
            IF i = 0 THEN positions
            ELSE LET child == container.children[i]
                 IN  IF Len(child.children) > 0
                     THEN extractPositionsRelative(child, 0, 0, Walk[i - 1])
                     ELSE SetPosition(Walk[i - 1],
                            [id |-> child.id, x |-> x + child.x,
                             y |-> y + child.y])
    IN  Walk[Len(container.children)]

\* extractPositions(container, offsetX, offsetY), on the nodePositions so
\* far
RECURSIVE extractPositions(_, _, _, _)
extractPositions(container, offsetX, offsetY, positions) ==
    LET x == offsetX + container.x
        y == offsetY + container.y
        Walk[i \in 0..Len(container.children)] ==
            IF i = 0 THEN positions
            ELSE LET child == container.children[i]
                 IN  IF Len(child.children) > 0
                     THEN extractPositions(child, x, y, Walk[i - 1])
                     ELSE SetPosition(Walk[i - 1],
                            [id |-> child.id, x |-> x + child.x,
                             y |-> y + child.y])
    IN  Walk[Len(container.children)]

\* layoutedGraph.children?.forEach((child) => extractPositions(child))
nodePositions(result) ==
    LET All[i \in 0..Len(result)] ==
            IF i = 0 THEN <<>>
            ELSE extractPositions(result[i], 0, 0, All[i - 1])
    IN  All[Len(result)]

\* nodes.map(node => ({ ...node, position: nodePositions.get(node.id) ??
\* { x: 0, y: 0 } }))
PositionedNodes(nodes, positions) ==
    [i \in DOMAIN nodes |->
        IF \E k \in DOMAIN positions : positions[k].id = nodes[i].id
        THEN LET pos == positions[CHOOSE k \in DOMAIN positions :
                                    positions[k].id = nodes[i].id]
             IN  [id |-> nodes[i].id, x |-> pos.x, y |-> pos.y]
        ELSE [id |-> nodes[i].id, x |-> 0, y |-> 0]]

\* the inputs: the epics A and B, and the epics A, B, C and D of which D
\* has no edge to another
PositionInputs ==
    {[nodes |-> SubSeq(EpicNodeList, 1, 3), edges |-> PickEdges({1, 11})],
     [nodes |-> SubSeq(EpicNodeList, 1, 5), edges |-> PickEdges({1, 4, 11})]}

PositionsInit ==
    /\ \E input \in PositionInputs :
            /\ layoutNodes = input.nodes
            /\ layoutEdges = input.edges
    /\ epicStats = <<>>
    /\ communities = <<>>
    /\ phase = "input"
    /\ layoutedGraph = <<>>
    /\ layoutedNodes = <<>>
    /\ files = <<>>
    /\ StorageEmpty
    /\ StoreInit
    /\ EffectIdle
    /\ TextIdle

\* const layoutedGraph = await elk.layout(elkGraph), when it resolves
ElkLayout ==
    /\ phase = "detected"
    /\ LET children == rootChildren(layoutNodes, epicStats, communities)
           containers == ElementIds(children)
                            \ {layoutNodes[i].id : i \in DOMAIN layoutNodes}
       IN  \E shiftOf \in [ElementIds(children) -> Shifts] :
                \E dropped \in containers \cup {""} :
                    layoutedGraph' = Placed(children, shiftOf, dropped)
    /\ phase' = "laid"
    /\ UNCHANGED <<layoutNodes, layoutEdges, epicStats, communities,
                   layoutedNodes, outsideEpic>>

\* the rest of getClusteredLayout: nodePositions and layoutedNodes
ExtractPositions ==
    /\ phase = "laid"
    /\ layoutedNodes' =
            PositionedNodes(layoutNodes, nodePositions(layoutedGraph))
    /\ phase' = "positioned"
    /\ UNCHANGED <<layoutNodes, layoutEdges, epicStats, communities,
                   layoutedGraph, outsideEpic>>

PositionsNext ==
    \/ AnalyzeEpicConnections
    \/ DetectEpicCommunities
    \/ ElkLayout
    \/ ExtractPositions

SpecPositions == PositionsInit /\ [][PositionsNext]_vars

\* the positions a node id has as a leaf of the engine's answer: the
\* relative positions from the outermost container down to the leaf, added
LeafPositions(id) ==
    {[x |-> layoutedGraph[i].x + layoutedGraph[i].children[j].x,
      y |-> layoutedGraph[i].y + layoutedGraph[i].children[j].y] :
        <<i, j>> \in {p \in (DOMAIN layoutedGraph) \X (1..Len(layoutNodes)) :
            /\ p[2] \in DOMAIN layoutedGraph[p[1]].children
            /\ layoutedGraph[p[1]].children[p[2]].id = id}}
    \cup
    {[x |-> layoutedGraph[p[1]].x + layoutedGraph[p[1]].children[p[2]].x
                + layoutedGraph[p[1]].children[p[2]].children[p[3]].x,
      y |-> layoutedGraph[p[1]].y + layoutedGraph[p[1]].children[p[2]].y
                + layoutedGraph[p[1]].children[p[2]].children[p[3]].y] :
        p \in {q \in (DOMAIN layoutedGraph) \X (1..Len(layoutNodes))
                        \X (1..Len(layoutNodes)) :
            /\ q[2] \in DOMAIN layoutedGraph[q[1]].children
            /\ q[3] \in DOMAIN layoutedGraph[q[1]].children[q[2]].children
            /\ layoutedGraph[q[1]].children[q[2]].children[q[3]].id = id}}

\* C24: after a successful layout every input node has one position: the
\* relative positions of its containers in the engine's answer and its own,
\* added; a node that is no leaf of the answer is at (0, 0).
C24_AbsolutePositions ==
    phase = "positioned" =>
        /\ Len(layoutedNodes) = Len(layoutNodes)
        /\ \A i \in DOMAIN layoutNodes :
                LET at == [x |-> layoutedNodes[i].x, y |-> layoutedNodes[i].y]
                    leaf == LeafPositions(layoutNodes[i].id)
                IN  /\ layoutedNodes[i].id = layoutNodes[i].id
                    /\ leaf # {} => leaf = {at}
                    /\ leaf = {} => at = [x |-> 0, y |-> 0]

\* several communities; a node stands at the sum of three positions other
\* than (0, 0), and another node, whose container the engine left out, at
\* (0, 0)
C24_Witness ==
    /\ phase = "positioned"
    /\ Len(communities) > 1
    /\ \E i \in DOMAIN layoutedNodes :
            /\ layoutedNodes[i].x = 90
            /\ layoutedNodes[i].y = 21
    /\ \E i \in DOMAIN layoutedNodes :
            /\ LeafPositions(layoutedNodes[i].id) = {}
            /\ layoutedNodes[i].x = 0
            /\ layoutedNodes[i].y = 0

-----------------------------------------------------------------------------
(* NavigationGraph.tsx: the layout effect.  The graph prop is fixed; the   *)
(* filters and the comments of the store change while layouts are in       *)
(* flight.  A displayed node is [id, hasComment, position].  Of the data   *)
(* of a node only hasComment is kept: the rest is made from the graph and  *)
(* from visibleNodeIds, so it is the same whenever the ids of the raw      *)
(* nodes are the same.                                                     *)

\* how many layout requests a run may make
MaxRequests == 2

\* graph.nodes, listed in another order than that of their ids: a screen
\* of the epic e with a tag, and a dialog without epic and without tags
GraphNodes ==
    <<[id |-> idA, type |-> sScreen, epic |-> <<"e">>, tags |-> <<sBeta>>],
      [id |-> idD, type |-> sDialog, epic |-> <<>>, tags |-> <<>>]>>

\* graph.edges
GraphEdges ==
    <<[id |-> idA \o sArrow \o idD, source |-> idA, target |-> idD]>>

GraphTypes == {GraphNodes[i].type : i \in DOMAIN GraphNodes}

GraphIds == {GraphNodes[i].id : i \in DOMAIN GraphNodes}

\* the entities the user comments on
CommentedIds == {idA}

\* the epics and the tags of the graph: with its types, what the filter
\* panel offers (availableTypes, availableEpics, availableTags)
GraphEpics == {GraphNodes[i].epic : i \in DOMAIN GraphNodes} \ {<<>>}

GraphTags == UNION {Range(GraphNodes[i].tags) : i \in DOMAIN GraphNodes}

\* a toggle called for each of the items in turn
RECURSIVE ToggledEach(_, _)
ToggledEach(hidden, items) ==
    IF items = {} THEN hidden
    ELSE LET item == CHOOSE i \in items : TRUE
         IN  ToggledEach(Toggled(hidden, item), items \ {item})

\* FilterOverlay.tsx, toggleAllTypes: toggleType for every type when all
\* are hidden, and for every type that is not hidden otherwise; every call
\* saves the three sets and sets the one it made
toggleAllTypes ==
    LET allHidden == \A t \in GraphTypes : t \in hiddenTypes
        called == {t \in GraphTypes : allHidden = (t \in hiddenTypes)}
        newHidden == ToggledEach(hiddenTypes, called)
    IN  /\ storedFilters' =
                saveFiltersToStorage(newHidden, hiddenEpics, hiddenTags)
        /\ hiddenTypes' = newHidden
        /\ UNCHANGED <<storeVars, fileName, directoryHandle, hiddenEpics,
                       hiddenTags, comments, storageWritable>>

\* FilterOverlay.tsx, toggleAllEpics
toggleAllEpics ==
    LET allHidden == \A e \in GraphEpics : e \in hiddenEpics
        called == {e \in GraphEpics : allHidden = (e \in hiddenEpics)}
        newHidden == ToggledEach(hiddenEpics, called)
    IN  /\ storedFilters' =
                saveFiltersToStorage(hiddenTypes, newHidden, hiddenTags)
        /\ hiddenEpics' = newHidden
        /\ UNCHANGED <<storeVars, fileName, directoryHandle, hiddenTypes,
                       hiddenTags, comments, storageWritable>>

\* FilterOverlay.tsx, toggleAllTags, over the tags and NO_TAGS_FILTER
toggleAllTags ==
    LET allTagsWithNoTags == GraphTags \cup {sNoTags}
        allHidden == \A t \in allTagsWithNoTags : t \in hiddenTags
        called == {t \in allTagsWithNoTags : allHidden = (t \in hiddenTags)}
        newHidden == ToggledEach(hiddenTags, called)
    IN  /\ storedFilters' =
                saveFiltersToStorage(hiddenTypes, hiddenEpics, newHidden)
        /\ hiddenTags' = newHidden
        /\ UNCHANGED <<storeVars, fileName, directoryHandle, hiddenTypes,
                       hiddenEpics, comments, storageWritable>>

\* the elements of seq that pass Test, in order
Filter(seq, Test(_)) ==
    LET F[i \in 0..Len(seq)] ==
            IF i = 0 THEN <<>>
            ELSE IF Test(seq[i]) THEN Append(F[i - 1], seq[i])
            ELSE F[i - 1]
    IN  F[Len(seq)]

\* visibleNodeIds: the nodes that none of the four tests hides
visibleNodeIds ==
    LET isTypeHidden(node) == node.type \in hiddenTypes
        isEpicHidden(node) ==
            Len(node.epic) > 0 /\ node.epic \in hiddenEpics
        isTagHidden(node) ==
            /\ Len(node.tags) > 0
            /\ \E t \in DOMAIN node.tags : node.tags[t] \in hiddenTags
        isNoTagsHidden(node) ==
            Len(node.tags) = 0 /\ sNoTags \in hiddenTags
    IN  {GraphNodes[i].id : i \in {j \in DOMAIN GraphNodes :
            /\ ~isTypeHidden(GraphNodes[j])
            /\ ~isEpicHidden(GraphNodes[j])
            /\ ~isTagHidden(GraphNodes[j])
            /\ ~isNoTagsHidden(GraphNodes[j])}}

\* rawNodes: the visible nodes of the graph, in its order, at { x: 0, y: 0 }
rawNodes ==
    LET Visible(node) == node.id \in visibleNodeIds
        shown == Filter(GraphNodes, Visible)
    IN  [i \in DOMAIN shown |->
            [id |-> shown[i].id, hasComment |-> shown[i].id \in comments,
             position |-> [x |-> 0, y |-> 0]]]

\* rawEdges: the edges of the graph between visible nodes, in its order
rawEdges ==
    LET Visible(edge) == /\ edge.source \in visibleNodeIds
                         /\ edge.target \in visibleNodeIds
    IN  Filter(GraphEdges, Visible)

\* ids.sort(): the ids in the order of their code units
RECURSIVE SortIds(_)
SortIds(ids) ==
    IF Len(ids) = 0 THEN <<>>
    ELSE LET least == CHOOSE i \in DOMAIN ids :
                        \A j \in DOMAIN ids : ~TextLess(ids[j], ids[i])
         IN  <<ids[least]>>
                \o SortIds(SubSeq(ids, 1, least - 1)
                            \o SubSeq(ids, least + 1, Len(ids)))

\* items.map(n => n.id).sort().join(',')
JoinIds(items) == Join(SortIds([i \in DOMAIN items |-> items[i].id]), ",")

\* layoutKey:  `${nodeIds}|${edgeIds}`
layoutKey == JoinIds(rawNodes) \o <<"|">> \o JoinIds(rawEdges)

\* What the layout engine may answer for the nodes of a request, as
\* nodePositions: a position for each node of a subset of them, the nodes
\* of a container missing from the answer having none.  The position of
\* the k-th node is (30 * k, 7).
EnginePositions(nodes) ==
    {LET kept == Filter(nodes, LAMBDA node : node.id \in placed)
     IN  [i \in DOMAIN kept |->
            [id |-> kept[i].id,
             x |-> 30 * (CHOOSE k \in DOMAIN nodes :
                            nodes[k].id = kept[i].id),
             y |-> 7]] :
        placed \in SUBSET {nodes[k].id : k \in DOMAIN nodes}}

\* layoutedNodes: nodes.map(node => ({ ...node, position:
\* nodePositions.get(node.id) ?? { x: 0, y: 0 } }))
Layouted(nodes, positions) ==
    [i \in DOMAIN nodes |->
        IF \E k \in DOMAIN positions : positions[k].id = nodes[i].id
        THEN LET pos == positions[CHOOSE k \in DOMAIN positions :
                                    positions[k].id = nodes[i].id]
             IN  [nodes[i] EXCEPT !.position = [x |-> pos.x, y |-> pos.y]]
        ELSE [nodes[i] EXCEPT !.position = [x |-> 0, y |-> 0]]]

\* an update that displays the raw nodes in place of the previous ones
UpdateDataReplacing(prevNodes, nodes) == nodes

\* prevNodes.map(node => ({...node, data: dataMap.get(node.id) || node.data}))
UpdateData(prevNodes, nodes) ==
    [i \in DOMAIN prevNodes |->
        IF \E k \in DOMAIN nodes : nodes[k].id = prevNodes[i].id
        THEN LET k == CHOOSE j \in DOMAIN nodes : nodes[j].id = prevNodes[i].id
             IN  [prevNodes[i] EXCEPT !.hasComment = nodes[k].hasComment]
        ELSE prevNodes[i]]

\* the cleanup of the previous run of the effect:  cancelled = true.
\* superseded records, for every request made so far, that the effect
\* has run again since.
RunCleanup(reqs, which) ==
    [r \in DOMAIN reqs |->
        [reqs[r] EXCEPT !.cancelled = (@ \/ r = which), !.superseded = TRUE]]

\* a completion handler that commits whether or not it was cancelled
IsLiveIgnoringCancel(req) == TRUE

\* if (!cancelled)
IsLive(req) == ~req.cancelled

EffectInit ==
    /\ \E hidden \in SUBSET GraphTypes :
            storedFilters = <<FilterRecord(hidden, {}, {})>>
    /\ storageWritable = TRUE
    /\ effectPending = TRUE
    /\ lastLayoutKeyRef = <<>>
    /\ requests = <<>>
    /\ cleanupOf = 0
    /\ flowNodes = <<>>
    /\ flowEdges = <<>>
    /\ isLayouting = FALSE
    /\ files = <<>>
    /\ StoreInit
    /\ EpicIdle
    /\ TextIdle

\* The store changes in the handler of a user event: a click on an item
\* of the filter panel or on one of its "toggle all" buttons, a comment
\* saved or deleted in the dialog.  The component renders once for the
\* event, and React runs the effect of that render before it renders
\* again: an event waits for the effect of the event before.

\* the rest of the component's state, which a store action leaves alone
mounted == <<lastLayoutKeyRef, requests, cleanupOf, flowNodes, flowEdges,
             isLayouting, epicVars, textVars, positionVars>>

\* toggleType(type) from the filter panel, and the render that follows
ToggleTypeRender ==
    /\ ~effectPending
    /\ \E type \in GraphTypes : toggleType(type)
    /\ effectPending' = TRUE
    /\ UNCHANGED <<lastToggle, mounted>>

\* toggleEpic(epic) from the filter panel, and the render that follows
ToggleEpicRender ==
    /\ ~effectPending
    /\ \E epic \in GraphEpics : toggleEpic(epic)
    /\ effectPending' = TRUE
    /\ UNCHANGED <<lastToggle, mounted>>

\* toggleTag(tag) from the filter panel, and the render that follows
ToggleTagRender ==
    /\ ~effectPending
    /\ \E tag \in GraphTags \cup {sNoTags} : toggleTag(tag)
    /\ effectPending' = TRUE
    /\ UNCHANGED <<lastToggle, mounted>>

\* toggleAllTypes from the filter panel, and the render that follows
ToggleAllTypesRender ==
    /\ ~effectPending
    /\ toggleAllTypes
    /\ effectPending' = TRUE
    /\ UNCHANGED <<lastToggle, mounted>>

\* toggleAllEpics from the filter panel, and the render that follows
ToggleAllEpicsRender ==
    /\ ~effectPending
    /\ toggleAllEpics
    /\ effectPending' = TRUE
    /\ UNCHANGED <<lastToggle, mounted>>

\* toggleAllTags from the filter panel, and the render that follows
ToggleAllTagsRender ==
    /\ ~effectPending
    /\ toggleAllTags
    /\ effectPending' = TRUE
    /\ UNCHANGED <<lastToggle, mounted>>

\* addComment(entityId, text), and the render that follows
AddCommentRender ==
    /\ ~effectPending
    /\ \E entityId \in CommentedIds : addComment(entityId)
    /\ effectPending' = TRUE
    /\ UNCHANGED mounted

\* removeComment(entityId), and the render that follows
RemoveCommentRender ==
    /\ ~effectPending
    /\ \E entityId \in CommentedIds : removeComment(entityId)
    /\ effectPending' = TRUE
    /\ UNCHANGED mounted

\* the effect runs and the layout key is the one of the last layout:
\* the previous cleanup, then the data-only branch, which returns no cleanup
RunEffectDataOnly ==
    /\ effectPending
    /\ lastLayoutKeyRef = <<layoutKey>>
    /\ requests' = RunCleanup(requests, cleanupOf)
    /\ flowNodes' = UpdateData(flowNodes, rawNodes)
    /\ cleanupOf' = 0
    /\ effectPending' = FALSE
    /\ UNCHANGED <<lastLayoutKeyRef, flowEdges, isLayouting, outsideEffect>>

\* the effect runs and the layout key is new: the previous cleanup, then
\* a call of getClusteredLayout whose cleanup the effect returns
RunEffectLayout ==
    /\ effectPending
    /\ Len(requests) < MaxRequests
    /\ lastLayoutKeyRef # <<layoutKey>>
    /\ lastLayoutKeyRef' = <<layoutKey>>
    /\ isLayouting' = TRUE
    /\ requests' = Append(RunCleanup(requests, cleanupOf),
                          [nodes |-> rawNodes,
                           edges |-> rawEdges,
                           cancelled |-> FALSE, superseded |-> FALSE,
                           state |-> "pending"])
    /\ cleanupOf' = Len(requests) + 1
    /\ effectPending' = FALSE
    /\ UNCHANGED <<flowNodes, flowEdges, outsideEffect>>

\* getClusteredLayout(...).then(...) for request r
LayoutResolve ==
    \E r \in DOMAIN requests :
        /\ requests[r].state = "pending"
        /\ requests' = [requests EXCEPT ![r].state = "resolved"]
        /\ IF IsLive(requests[r])
           THEN /\ \E positions \in EnginePositions(requests[r].nodes) :
                        flowNodes' = Layouted(requests[r].nodes, positions)
                /\ flowEdges' = requests[r].edges
                /\ isLayouting' = FALSE
           ELSE UNCHANGED <<flowNodes, flowEdges, isLayouting>>
        /\ UNCHANGED <<effectPending, lastLayoutKeyRef, cleanupOf,
                       outsideEffect>>

\* a catch handler that gives the build up: nothing is displayed
LayoutRejectAborting ==
    \E r \in DOMAIN requests :
        /\ requests[r].state = "pending"
        /\ requests' = [requests EXCEPT ![r].state = "rejected"]
        /\ IF IsLive(requests[r])
           THEN /\ flowNodes' = <<>>
                /\ flowEdges' = <<>>
                /\ isLayouting' = FALSE
           ELSE UNCHANGED <<flowNodes, flowEdges, isLayouting>>
        /\ UNCHANGED <<effectPending, lastLayoutKeyRef, cleanupOf,
                       outsideEffect>>

\* getClusteredLayout(...).catch(...) for request r
LayoutReject ==
    \E r \in DOMAIN requests :
        /\ requests[r].state = "pending"
        /\ requests' = [requests EXCEPT ![r].state = "rejected"]
        /\ IF IsLive(requests[r])
           THEN /\ flowNodes' = requests[r].nodes
                /\ flowEdges' = requests[r].edges
                /\ isLayouting' = FALSE
           ELSE UNCHANGED <<flowNodes, flowEdges, isLayouting>>
        /\ UNCHANGED <<effectPending, lastLayoutKeyRef, cleanupOf,
                       outsideEffect>>

EffectNext ==
    \/ ToggleTypeRender
    \/ ToggleEpicRender
    \/ ToggleTagRender
    \/ ToggleAllTypesRender
    \/ ToggleAllEpicsRender
    \/ ToggleAllTagsRender
    \/ AddCommentRender
    \/ RemoveCommentRender
    \/ RunEffectDataOnly
    \/ RunEffectLayout
    \/ LayoutResolve
    \/ LayoutReject

SpecLayout == EffectInit /\ [][EffectNext]_vars

\* C5: the completion, by success or by failure, of a layout request made
\* before the effect ran again changes none of the displayed nodes, the
\* displayed edges and the layouting flag.
C5_SupersededCommitsNothing ==
    [][\A r \in DOMAIN requests :
            (/\ requests[r].superseded
             /\ requests[r].state = "pending"
             /\ requests'[r].state # "pending")
            => UNCHANGED <<flowNodes, flowEdges, isLayouting>>]_vars

\* A superseded request has completed while the newer one was in flight,
\* and the display still waits for the newer one: it shows neither an
\* answer of the engine for the older request nor its raw nodes.
C5_Witness ==
    \E r \in DOMAIN requests : \E newer \in DOMAIN requests :
        /\ r < newer
        /\ requests[r].superseded
        /\ requests[r].state # "pending"
        /\ requests[newer].state = "pending"
        /\ ~requests[newer].superseded
        /\ isLayouting
        /\ Len(requests[r].nodes) > 0
        /\ \A positions \in EnginePositions(requests[r].nodes) :
                flowNodes # Layouted(requests[r].nodes, positions)

\* C15: when the layout call of a request fails and the effect has not run
\* again since the request, all the nodes and edges of the request are
\* displayed, every node at the default position, and the layouting flag
\* is cleared.
C15_FailureFallsBack ==
    [][\A r \in DOMAIN requests :
            (/\ ~requests[r].superseded
             /\ requests[r].state = "pending"
             /\ requests'[r].state = "rejected")
            => /\ Len(flowNodes') = Len(requests[r].nodes)
               /\ \A k \in DOMAIN flowNodes' :
                    /\ flowNodes'[k].id = requests[r].nodes[k].id
                    /\ flowNodes'[k].hasComment =
                            requests[r].nodes[k].hasComment
                    /\ flowNodes'[k].position = [x |-> 0, y |-> 0]
               /\ flowEdges' = requests[r].edges
               /\ isLayouting' = FALSE]_vars

\* The layout of two nodes and their edge has failed: both nodes are
\* displayed at the default position, with the edge, and nothing is being
\* laid out.
C15_Witness ==
    \E r \in DOMAIN requests :
        /\ requests[r].state = "rejected"
        /\ ~requests[r].superseded
        /\ Len(requests[r].nodes) = 2
        /\ Len(flowNodes) = 2
        /\ \A k \in DOMAIN flowNodes :
                /\ flowNodes[k].id = requests[r].nodes[k].id
                /\ flowNodes[k].position = [x |-> 0, y |-> 0]
        /\ Len(flowEdges) = 1
        /\ flowEdges = requests[r].edges
        /\ ~isLayouting

IdsOf(items) == {items[i].id : i \in DOMAIN items}

\* the effect runs while the layout key is the one of the last layout
KeyUnchangedRun ==
    /\ effectPending
    /\ ~effectPending'
    /\ lastLayoutKeyRef = <<layoutKey>>

\* C26: a run of the layout effect with an unchanged layout key starts no
\* layout computation and leaves every displayed node where it was: the
\* displayed nodes keep their ids and positions, a node that is among the
\* raw nodes gets its data from there, and the displayed edges and the
\* layouting flag stay as they were.
C26_DataOnlyRun ==
    [][KeyUnchangedRun =>
        /\ Len(requests') = Len(requests)
        /\ \A r \in DOMAIN requests : requests'[r].state = requests[r].state
        /\ Len(flowNodes') = Len(flowNodes)
        /\ \A i \in DOMAIN flowNodes :
                /\ flowNodes'[i].id = flowNodes[i].id
                /\ flowNodes'[i].position = flowNodes[i].position
                /\ flowNodes'[i].hasComment =
                        IF flowNodes[i].id \in IdsOf(rawNodes)
                        THEN flowNodes[i].id \in comments
                        ELSE flowNodes[i].hasComment
        /\ flowEdges' = flowEdges
        /\ isLayouting' = isLayouting]_vars

\* Both nodes are displayed in the order of the graph, which is not the
\* order of their ids in the layout key; one has a position from the
\* layout engine and shows a comment that no layout request knew of: the
\* comment came with a run of the effect that left the position alone.
C26_Witness ==
    /\ ~effectPending
    /\ Len(flowNodes) = 2
    /\ TextLess(flowNodes[2].id, flowNodes[1].id)
    /\ \E i \in DOMAIN flowNodes :
            /\ flowNodes[i].position # [x |-> 0, y |-> 0]
            /\ flowNodes[i].hasComment
            /\ \A r \in DOMAIN requests :
                    \A k \in DOMAIN requests[r].nodes :
                        requests[r].nodes[k].id = flowNodes[i].id
                            => ~requests[r].nodes[k].hasComment

\* C6: once the inputs have stopped changing (the effect has run for the
\* last of them) and every layout call has returned, the layout of the
\* current nodes and edges is displayed and the layouting flag is cleared.
C6_QuiescentIsCommitted ==
    (/\ ~effectPending
     /\ requests # <<>>
     /\ \A r \in DOMAIN requests : requests[r].state # "pending")
    => /\ isLayouting = FALSE
       /\ IdsOf(flowNodes) = IdsOf(rawNodes)
       /\ flowEdges = rawEdges

-----------------------------------------------------------------------------
(* bmfStore.ts on its own: the worked examples are loaded, as single       *)
(* files and as folders, nodes are selected, filters toggled and comments  *)
(* written, over a localStorage that holds nothing or an older filter      *)
(* record and that takes writes or throws on them.                         *)

\* what localStorage holds when the page is opened: nothing, or the record
\* of an earlier visit, with values the documents do not have among it
StoredAtStart ==
    {<<>>,
     <<FilterRecord({sScreen, sDialog}, {<<"t">>, <<"u">>},
                    {sNoTags, sBeta, <<"x">>})>>}

StoreFiles ==
    {<<BadYaml>>, CommentedFolder}

StoreSpecInit ==
    /\ files \in StoreFiles
    /\ storedFilters \in StoredAtStart
    /\ storageWritable \in BOOLEAN
    /\ StoreInit
    /\ EpicIdle
    /\ EffectIdle
    /\ TextIdle

\* the epics and the tags the user toggles
ToggleEpics == {<<"t">>}

ToggleTags == {sNoTags}

ToggleType ==
    /\ \E type \in GraphTypes :
            toggleType(type) /\ lastToggle' = ToggleRun("type", type)
    /\ UNCHANGED outsideStore

ToggleEpic ==
    /\ \E epic \in ToggleEpics :
            toggleEpic(epic) /\ lastToggle' = ToggleRun("epic", epic)
    /\ UNCHANGED outsideStore

ToggleTag ==
    /\ \E tag \in ToggleTags :
            toggleTag(tag) /\ lastToggle' = ToggleRun("tag", tag)
    /\ UNCHANGED outsideStore

AddComment ==
    /\ \E entityId \in CommentedIds : addComment(entityId)
    /\ UNCHANGED outsideStore

RemoveComment ==
    /\ \E entityId \in CommentedIds : removeComment(entityId)
    /\ UNCHANGED outsideStore

StoreNext ==
    \/ LoadFromYaml
    \/ LoadFromFiles
    \/ SetDirectoryHandle
    \/ Reset
    \/ SelectNode
    \/ ToggleType
    \/ ToggleEpic
    \/ ToggleTag
    \/ AddComment
    \/ RemoveComment

SpecStore == StoreSpecInit /\ [][StoreNext]_vars

\* the three in-memory hidden sets
HiddenNow == FilterRecord(hiddenTypes, hiddenEpics, hiddenTags)

\* the hidden set a toggle of the given kind works on
HiddenOf(r, kind) ==
    IF kind = "type" THEN r.hiddenTypes
    ELSE IF kind = "epic" THEN r.hiddenEpics
    ELSE r.hiddenTags

\* the elements that are in one of two sets only
Differing(a, b) == (a \ b) \cup (b \ a)

\* since the hidden sets were origin, the toggle of run.kind was called
\* with run.item an odd or an even number of times: an odd number leaves
\* exactly that item's membership changed, an even number leaves nothing
\* changed, and the other two sets are as they were
RunRestores(run) ==
    /\ \A kind \in {"type", "epic", "tag"} \ {run.kind} :
            HiddenOf(HiddenNow, kind) = HiddenOf(run.origin, kind)
    /\ Differing(HiddenOf(HiddenNow, run.kind), HiddenOf(run.origin, run.kind))
            = IF run.odd THEN {run.item} ELSE {}

\* the statement without a condition on localStorage: after every toggle
\* the persisted record is the three in-memory sets
C16_ToggleAlwaysPersisted ==
    lastToggle # <<>> =>
        /\ RunRestores(lastToggle[1])
        /\ storedFilters = <<HiddenNow>>

\* a call of one of the three toggles
IsToggle == lastToggle' # <<>> /\ lastToggle' # lastToggle

\* C16: toggleType, toggleEpic and toggleTag applied twice with one argument
\* restore the three hidden sets, each call changes the membership of its
\* argument in its own set and nothing else of the hidden sets; after a
\* call whose write to localStorage succeeds the persisted filter record is
\* the three in-memory hidden sets, and a call whose write throws leaves
\* the persisted record as it was.
C16_ToggleInvolution ==
    /\ [](lastToggle # <<>> =>
            /\ RunRestores(lastToggle[1])
            /\ storageWritable => storedFilters = <<HiddenNow>>)
    /\ [][IsToggle =>
            /\ HiddenNow' # HiddenNow
            /\ storageWritable => storedFilters' = <<HiddenNow'>>
            /\ ~storageWritable => storedFilters' = storedFilters]_vars

\* a toggle was called twice on a loaded store whose filters are in use
C16_Witness ==
    /\ lastToggle # <<>>
    /\ ~lastToggle[1].odd
    /\ loaded
    /\ storageWritable
    /\ hiddenTypes # {}
    /\ lastToggle[1].item \in HiddenOf(HiddenNow, lastToggle[1].kind)

\* the not-loaded state of the store
NotLoaded ==
    /\ loaded = FALSE
    /\ loading = FALSE
    /\ error = "null"
    /\ fileName = <<>>
    /\ parsed = <<>>
    /\ graph = <<>>
    /\ directoryHandle = <<>>
    /\ selectedNodeId = <<>>
    /\ connectedNodes = {}
    /\ hiddenTypes = {}
    /\ hiddenEpics = {}
    /\ hiddenTags = {}
    /\ comments = {}

\* the statement without a condition on localStorage: reset() ends in the
\* not-loaded state with empty persisted filters
C17_ResetAlwaysClearsStorage ==
    [][Reset => (NotLoaded' /\ getFiltersFromStorage' = EmptyFilters)]_vars

\* C17: reset() ends in the not-loaded state: loaded and loading false,
\* error, fileName, parsed, graph, directoryHandle and selectedNodeId null,
\* connectedNodes, the three hidden sets and comments empty; the
\* persisted filters are empty when the write to localStorage succeeds and
\* as they were when it throws.
C17_ResetClears ==
    [][Reset => /\ NotLoaded'
                /\ storageWritable => storedFilters' = <<EmptyFilters>>
                /\ ~storageWritable => storedFilters' = storedFilters]_vars

\* the store after a reset: not loaded, with the empty filter record that
\* only a reset writes without leaving a toggle in the history (a load
\* clears the history too, and the store stays loaded until a reset)
C17_Witness ==
    /\ NotLoaded
    /\ storageWritable
    /\ storedFilters = <<EmptyFilters>>
    /\ lastToggle = <<>>

-----------------------------------------------------------------------------
(* bmfStore.ts: refreshFolder.  The call reads the folder again through    *)
(* the directory handle; loads, resets and selections go on while the read *)
(* is under way, and the folder may hold other documents by then.          *)

\* how many times refreshFolder is called in one run
MaxRefreshes == 2

\* the chain of effect references, without the reference from b to c
DocChainCut ==
    Map(<<[k |-> idChainA, v |-> RecEffectTo(idChainB)],
          [k |-> idChainB, v |-> RecEmpty],
          [k |-> idChainC,
           v |-> Map(<<[k |-> sComponents,
                        v |-> List(<<Str(<<"x">>)>>)]>>)]>>)

\* what readYamlFilesFromHandle may find: the documents as loaded, edited
\* documents, no YAML file at all, or a file YAML.parse rejects
FolderReads(fs) ==
    {fs, <<DocChainCut>>, <<>>, <<BadYaml>>, CommentedFolder}

\* what the handle of a folder that cannot be read any more throws
ReadError == [throws |-> "DOMException"]

\* refreshFolder() up to the await: nothing happens without a directory
\* handle and a file name
RefreshFolderStart ==
    /\ Len(refreshing) < MaxRefreshes
    /\ directoryHandle # <<>>
    /\ fileName # <<>>
    /\ loading' = TRUE
    /\ error' = "null"
    /\ refreshing' = Append(refreshing, [state |-> "reading",
                                         overtaken |-> FALSE,
                                         wrote |-> FALSE])
    /\ UNCHANGED <<files, loaded, parsed, graph, selectedNodeId,
                   connectedNodes, filterVars, outsideStore>>

\* the catch handler of refreshFolder, and the branch for an empty folder
refreshFails(r, message) ==
    /\ loading' = FALSE
    /\ error' = message
    /\ refreshing' = [refreshing EXCEPT ![r].state = "done"]
    /\ UNCHANGED <<files, loaded, parsed, graph, selectedNodeId,
                   connectedNodes, filterVars>>

\* refreshFolder() from the await on, for call r: the read threw, or it
\* gave the documents fs, the one under "_comments.yaml" at commentsAt
refreshFolder(r, readOk, fs, commentsAt) ==
    LET Built(p, g) ==
            IF Throws(g) THEN refreshFails(r, MessageOf(g))
            ELSE /\ loading' = FALSE
                 /\ parsed' = <<p>>
                 /\ graph' = <<g>>
                 /\ hiddenTypes' = validHidden(graph'[1]).hiddenTypes
                 /\ hiddenEpics' = validHidden(graph'[1]).hiddenEpics
                 /\ hiddenTags' = validHidden(graph'[1]).hiddenTags
                 /\ comments' =
                        LoadedComments(CommentsContent(fs, commentsAt))
                 /\ lastToggle' = <<>>
                 /\ refreshing' = [refreshing EXCEPT ![r].state = "done",
                                                     ![r].wrote = TRUE]
                 /\ UNCHANGED <<files, loaded, error, selectedNodeId,
                                connectedNodes, fileName, directoryHandle,
                                storedFilters, storageWritable>>
        Parsed(p) == IF Throws(p) THEN refreshFails(r, MessageOf(p))
                     ELSE Built(p, buildGraph(p))
    IN  IF ~readOk THEN refreshFails(r, MessageOf(ReadError))
        ELSE IF Len(fs) = 0
        THEN refreshFails(r, "No YAML files found in the folder.")
        ELSE Parsed(parseBmfFiles(fs))

RefreshFolderDone ==
    /\ \E r \in DOMAIN refreshing :
        /\ refreshing[r].state = "reading"
        /\ \E readOk \in BOOLEAN :
            \E fs \in FolderReads(files) :
                \E commentsAt \in CommentsPlaces(fs) :
                    refreshFolder(r, readOk, fs, commentsAt)
    /\ UNCHANGED outsideStore

RefreshFiles == {<<DocChain>>, <<DocFinish>>}

RefreshInit ==
    /\ files \in RefreshFiles
    /\ StorageEmpty
    /\ StoreInit
    /\ EpicIdle
    /\ EffectIdle
    /\ TextIdle

RefreshNext ==
    \/ LoadFromYaml
    \/ LoadFromFiles
    \/ SetDirectoryHandle
    \/ Reset
    \/ SelectNode
    \/ RefreshFolderStart
    \/ RefreshFolderDone

SpecRefresh == RefreshInit /\ [][RefreshNext]_vars

\* C28: whenever the store has a graph and a selected node, connectedNodes
\* is the selected node and the nodes an edge of that graph joins to it.
C28_ConnectedNodesOfGraph ==
    (graph # <<>> /\ selectedNodeId # <<>>) =>
        connectedNodes =
            {selectedNodeId[1]}
                \cup {graph[1].edges[i].target :
                        i \in {j \in DOMAIN graph[1].edges :
                            graph[1].edges[j].source = selectedNodeId[1]}}
                \cup {graph[1].edges[i].source :
                        i \in {j \in DOMAIN graph[1].edges :
                            graph[1].edges[j].target = selectedNodeId[1]}}

\* C29: a refreshFolder that a load or a reset has overtaken writes nothing
\* to the store: a store that is not loaded has neither parsed data nor a
\* graph, and no overtaken call has replaced them.
C29_OvertakenRefreshWritesNothing ==
    /\ ~loaded => (parsed = <<>> /\ graph = <<>>)
    /\ \A r \in DOMAIN refreshing :
            ~(refreshing[r].overtaken /\ refreshing[r].wrote)

-----------------------------------------------------------------------------
(* Reference extraction from one string: the string is put together from   *)
(* references in both spellings, bare component references, a parameter    *)
(* clause and blanks, then scanned by extractReferences (parser.ts) and by  *)
(* extractReference (patterns.ts).                                         *)

\* the most pieces a scanned string is made of
MaxTokens == 3

segsAB == <<<<"a">>, <<"b">>>>
segsC == <<<<"c">>>>

RefTypes == {sScreen, sComponent}
RefPaths == {segsAB, segsC}
Separators == {":", "."}

sBlank == <<" ">>
sClause == <<"(", "k", ":", " ", "v", ")">>

Tokens ==
    {Sigil(type, segs, sep) :
        type \in RefTypes, segs \in RefPaths, sep \in Separators}
    \cup {EntityId(sComponent, segsC), sComponent \o <<":", "a", ".", "b">>}
    \cup {sBlank, sClause}

RECURSIVE Concat(_)
Concat(parts) ==
    IF Len(parts) = 0 THEN <<>> ELSE Head(parts) \o Concat(Tail(parts))

Texts == {Concat(parts) : parts \in UNION {[1..n -> Tokens] : n \in 1..MaxTokens}}

sourceOfText == <<"s", "r", "c">>

TextInit ==
    /\ text \in Texts
    /\ refsOut = <<>>
    /\ refOut = <<>>
    /\ files = <<>>
    /\ StorageEmpty
    /\ StoreInit
    /\ EpicIdle
    /\ EffectIdle

\* extractReferences(value, sourceId, path, refs) for the string text
ExtractReferences ==
    /\ refsOut = <<>>
    /\ refsOut' = <<extractReferences(Str(text), sourceOfText)>>
    /\ UNCHANGED <<text, refOut, outsideText>>

\* extractReference(value) for the string text
ExtractReference ==
    /\ refOut = <<>>
    /\ refOut' = <<extractReference(text)>>
    /\ UNCHANGED <<text, refsOut, outsideText>>

TextNext ==
    \/ ExtractReferences
    \/ ExtractReference

SpecText == TextInit /\ [][TextNext]_vars

TargetsOf(refs) == {refs[i].target : i \in DOMAIN refs}

\* the parameter clauses a reference may be followed by, none included
Clauses == {<<>>, sClause, sBlank \o sClause}

\* C11: a reference spelt with ':' or with '.', followed or not by a
\* parenthesized parameter clause, is recorded with the target id
\* type:seg:...:seg by extractReferences and by extractReference.
C11_SeparatorIndependent ==
    \A type \in RefTypes : \A segs \in RefPaths :
        \A sep \in Separators : \A clause \in Clauses :
            text = Sigil(type, segs, sep) \o clause =>
                /\ refsOut # <<>> =>
                        TargetsOf(refsOut[1]) = {EntityId(type, segs)}
                /\ refOut # <<>> =>
                        /\ refOut[1].isRef
                        /\ refOut[1].reference = EntityId(type, segs)

\* "$screen.a.b(k: v)" scanned by both: the target is screen:a:b.
C11_Witness ==
    /\ text = Sigil(sScreen, segsAB, ".") \o sClause
    /\ refsOut = <<<<[source |-> sourceOfText,
                      target |-> EntityId(sScreen, segsAB),
                      targetType |-> sScreen]>>>>
    /\ refOut # <<>>
    /\ refOut[1].reference = EntityId(sScreen, segsAB)

\* the matches of the sigil grammar in s from position from on, each with
\* the position it starts at and the target id it stands for
RECURSIVE SigilMatchList(_, _)
SigilMatchList(s, from) ==
    LET match == ReferenceExec(s, from)
    IN  IF match.found
        THEN <<[index |-> match.index,
                target |-> match.g1 \o <<":">> \o ReplaceDots(match.g2)]>>
             \o SigilMatchList(s, match.next)
        ELSE <<>>

\* the same for the bare-component grammar
RECURSIVE BareMatchList(_, _)
BareMatchList(s, from) ==
    LET match == BareComponentExec(s, from)
    IN  IF match.found
        THEN <<[index |-> match.index,
                target |-> sComponent \o <<":">> \o ReplaceDots(match.g1)]>>
             \o BareMatchList(s, match.next)
        ELSE <<>>

\* two lists in ascending index order merged into one
RECURSIVE MergeByIndex(_, _)
MergeByIndex(xs, ys) ==
    IF Len(xs) = 0 THEN ys
    ELSE IF Len(ys) = 0 THEN xs
    ELSE IF Head(xs).index <= Head(ys).index
    THEN <<Head(xs)>> \o MergeByIndex(Tail(xs), ys)
    ELSE <<Head(ys)>> \o MergeByIndex(xs, Tail(ys))

MatchesLeftToRight(s) ==
    MergeByIndex(SigilMatchList(s, 1), BareMatchList(s, 1))

\* C20: the references recorded for a string are its matches of the sigil
\* grammar and of the bare-component grammar, all of them, in the
\* left-to-right order of the positions the matches start at.
C20_MatchesInTextOrder ==
    refsOut # <<>> =>
        /\ Len(refsOut[1]) = Len(MatchesLeftToRight(text))
        /\ \A k \in DOMAIN refsOut[1] :
                refsOut[1][k].target = MatchesLeftToRight(text)[k].target

\* the positions of s at which a sigil reference starts: '$' is in neither
\* of the pattern's classes, so no match starts inside another
SigilStarts(s) == {i \in DOMAIN s : RefMatchAt(s, i).found}

\* the positions of s at which a bare component reference starts and that
\* no earlier bare component reference reaches
BareStarts(s) ==
    {i \in DOMAIN s :
        /\ BareMatchAt(s, i).found
        /\ ~\E j \in 1..(i - 1) :
                BareMatchAt(s, j).found /\ i < BareMatchAt(s, j).next}

RECURSIVE Ascending(_)
Ascending(S) ==
    IF S = {} THEN <<>>
    ELSE LET least == CHOOSE x \in S : \A y \in S : x <= y
         IN  <<least>> \o Ascending(S \ {least})

SigilTargetAt(s, i) ==
    RefMatchAt(s, i).g1 \o <<":">> \o
        [k \in DOMAIN RefMatchAt(s, i).g2 |->
            IF RefMatchAt(s, i).g2[k] = "." THEN ":" ELSE RefMatchAt(s, i).g2[k]]

BareTargetAt(s, i) ==
    sComponent \o <<":">> \o
        [k \in DOMAIN BareMatchAt(s, i).g1 |->
            IF BareMatchAt(s, i).g1[k] = "." THEN ":"
            ELSE BareMatchAt(s, i).g1[k]]

\* C20, amended: the references recorded for a string are first its sigil
\* references in left-to-right order, then its bare component references
\* in left-to-right order; every match of either grammar is recorded.
C20_GrammarByGrammar ==
    refsOut # <<>> =>
        LET sigils == Ascending(SigilStarts(text))
            bares == Ascending(BareStarts(text))
        IN  /\ Len(refsOut[1]) = Len(sigils) + Len(bares)
            /\ \A k \in DOMAIN sigils :
                    refsOut[1][k].target = SigilTargetAt(text, sigils[k])
            /\ \A k \in DOMAIN bares :
                    refsOut[1][Len(sigils) + k].target
                        = BareTargetAt(text, bares[k])

\* "component:c $screen.c": the bare reference stands first in the string
\* and second in the list.
C20_Witness ==
    /\ text = EntityId(sComponent, segsC) \o sBlank
                \o Sigil(sScreen, segsC, ".")
    /\ refsOut # <<>>
    /\ Len(refsOut[1]) = 2
    /\ refsOut[1][1].target = EntityId(sScreen, segsC)
    /\ refsOut[1][2].target = EntityId(sComponent, segsC)

====
